---- MODULE Spec2Model ----
(***************************************************************************)
(* The async reconciliation node of HSDS (hsds/asyncnode.py) with the      *)
(* registration / health-check task of hsds/basenode.py.                   *)
(*                                                                         *)
(* The object graph is a heap of Python dicts: every index (s3keys,        *)
(* domains, roots, groups, datasets, datatypes, chunks) maps a key to the  *)
(* ADDRESS of a dict, so that "the same record" is address equality and a  *)
(* mutation through one holder is seen by all of them.  The maps nested in *)
(* a record (chunks, groups, datasets, datatypes) map an id to an address. *)
(***************************************************************************)
EXTENDS Integers, Sequences, FiniteSets, TLC

\* ------------------------------------------------------------------ bounds

\* chunks of the dataset D1 that exist in the bucket
NumChunks == 2
\* items appended to pending_queue over a run
MaxEvents == 2
\* ids in the body of one PUT /objects or DELETE /objects request
MaxBatch == 2
\* last value of the clock (time.time(), in whole seconds)
MaxTime == 1
\* cells of the heap
MaxAddr == 12
\* DN delete requests, and value of deleted_count, from which no further
\* pass of sweepObjs is started
MaxRequests == 3

\* ---------------------------------------------------------------- the ids
\* An id is <<prefix, number, chunk coordinate>>: "g-<n>", "d-<n>", "t-<n>",
\* "c-<n>_<k>", the domain "/<n>", and an id that is none of these.

R1 == <<"g", 0, 0>>
R2 == <<"g", 9, 0>>
G1 == <<"g", 1, 0>>
G2 == <<"g", 2, 0>>
D1 == <<"d", 1, 0>>
T1 == <<"t", 1, 0>>
Chunk(n, k) == <<"c", n, k>>
Dom == <<"/", 1, 0>>
Bad == <<"x", 0, 0>>

D1Chunks == {Chunk(1, k) : k \in 1..NumChunks}

isValidDomain(id) == id[1] = "/"

isValidChunkId(id) == id[1] = "c"

isValidUuid(id) == id[1] \in {"g", "d", "t", "c"}

\* raises ValueError ("err") for an id that is no group, dataset or datatype
getCollectionForId(id) ==
    CASE id[1] = "g" -> "groups"
      [] id[1] = "d" -> "datasets"
      [] id[1] = "t" -> "datatypes"
      [] OTHER -> "err"

getDatasetId(chunkid) == <<"d", chunkid[2], 0>>

getS3Key(id) == <<"key", id>>

\* --------------------------------------------------------------- variables

VARIABLES
    node_state,      \* app["node_state"]
    pc,              \* where bucketCheck stands
    heap,            \* address -> dict
    s3keys,          \* app["s3keys"]: s3 key -> address
    domains,         \* app["domains"]: domain -> address
    roots,           \* app["roots"]: root id -> address
    groups,          \* app["groups"]
    datasets,        \* app["datasets"]
    datatypes,       \* app["datatypes"]
    chunks,          \* app["chunks"]
    bytes_in_bucket, \* app["bytes_in_bucket"]
    bucket_stats,    \* app["bucket_stats"]
    pending_queue,   \* app["pending_queue"]
    deleted_objids,  \* app["deleted_objids"]
    domains_updated, \* the dirty-set map of the running tick
    sw,              \* the locals of the running sweepObjs
    now,             \* the clock
    anonymous_ttl,   \* app["anonymous_ttl"]
    manifests,       \* the manifests written to the bucket: key -> lines
    enqueued,        \* history: every item ever appended, in order
    applied,         \* history: every item popped by the drain, in order
    dn_log,          \* history: every DN delete request of sweepObj
    http,            \* history: the last /objects request and its response
    last,            \* history: the last graph operation and its outcome
    readied,         \* history: what the health check saw when the node
                     \* became READY
    published,       \* history: the last call of updateDomainContent
    mismatched       \* history: the last health check found another id
                     \* listed for this node

vars == <<node_state, pc, heap, s3keys, domains, roots, groups, datasets,
          datatypes, chunks, bytes_in_bucket, bucket_stats, pending_queue,
          deleted_objids, domains_updated, sw, now, anonymous_ttl, manifests,
          enqueued, applied, dn_log, http, last, readied, published,
          mismatched>>

\* ------------------------------------------------------------- the heap

EmptyMap == <<>>

Has(d, k) == k \in DOMAIN d

\* d[k] = v on a dict or a map
Put(d, k, v) == [x \in (DOMAIN d) \cup {k} |-> IF x = k THEN v ELSE d[x]]

\* del d[k]
Del(d, k) == [x \in (DOMAIN d) \ {k} |-> d[x]]

MapKeys == {"chunks", "groups", "datasets", "datatypes"}

\* the addresses a dict refers to through its nested maps
Refs(d) ==
    UNION {{d[k][i] : i \in DOMAIN d[k]} : k \in (DOMAIN d) \cap MapKeys}

Range(f) == {f[x] : x \in DOMAIN f}

\* the graph as one value, for the operators that thread it
Graph ==
    [heap |-> heap, s3keys |-> s3keys, domains |-> domains, roots |-> roots,
     groups |-> groups, datasets |-> datasets, datatypes |-> datatypes,
     chunks |-> chunks, bytes_in_bucket |-> bytes_in_bucket,
     deleted_objids |-> deleted_objids]

IndexAddrs(g) ==
    Range(g.s3keys) \cup Range(g.domains) \cup Range(g.roots)
        \cup Range(g.groups) \cup Range(g.datasets) \cup Range(g.datatypes)
        \cup Range(g.chunks)

Step(g, as) == as \cup UNION {Refs(g.heap[a]) : a \in as}

\* every address some index, nested map or local variable in `keep` holds
\* (root -> dataset -> chunk is the longest chain)
Reachable(g, keep) == Step(g, Step(g, Step(g, IndexAddrs(g) \cup keep)))

\* drop the dicts nothing refers to any more
Collect(g, keep) ==
    [g EXCEPT !.heap = [a \in Reachable(g, keep) |-> g.heap[a]]]

\* the address of a new dict
NewAddr(g) == CHOOSE a \in 1..MaxAddr :
                 /\ a \notin DOMAIN g.heap
                 /\ \A b \in 1..MaxAddr : b \notin DOMAIN g.heap => a <= b

\* --------------------------------------------------- registration, health

\* register(): the head node answers (the node waits for the cluster), or
\* the post fails or returns nothing (nothing changes)
register(answered) ==
    /\ node_state = "INITIALIZING"
    /\ node_state' = IF answered THEN "WAITING" ELSE node_state
    /\ readied' = readied
    /\ mismatched' = FALSE

\* a health check that makes a waiting node READY whatever the cluster state
nodestateUnchecked(rsp, cluster_state, mismatch) ==
    /\ node_state # "INITIALIZING"
    /\ node_state' =
          IF rsp # "ok" THEN node_state
          ELSE IF node_state = "WAITING" THEN "READY"
          ELSE IF node_state = "READY" /\ cluster_state # "READY" THEN "WAITING"
          ELSE node_state
    /\ readied' =
          IF node_state' = "READY" /\ node_state # "READY"
          THEN [node_state |-> node_state, cluster_state |-> cluster_state]
          ELSE readied
    /\ mismatched' = (rsp = "ok" /\ mismatch)

\* one health check against the head node.  rsp is "error" (ClientError),
\* "invalid" (no dict) or "ok"; mismatch says that the head lists another id
\* for this node's type and number: the code then evaluates the comparison
\* app["node_state"] == "INITIALIZING" and assigns nothing.
nodestate(rsp, cluster_state, mismatch) ==
    /\ node_state # "INITIALIZING"
    /\ node_state' =
          IF rsp # "ok" THEN node_state
          ELSE IF node_state = "WAITING" /\ cluster_state = "READY" THEN "READY"
          ELSE IF node_state = "READY" /\ cluster_state # "READY" THEN "WAITING"
          ELSE node_state
    /\ readied' =
          IF node_state' = "READY" /\ node_state # "READY"
          THEN [node_state |-> node_state, cluster_state |-> cluster_state]
          ELSE readied
    /\ mismatched' = (rsp = "ok" /\ mismatch)

\* what the request to the head node yields: a dict, no dict, a ClientError
Responses == {"ok", "invalid", "error"}

\* the cluster states the head node reports
ClusterReady == {"READY"}

ClusterStates == {"READY", "WAITING"}

\* the head node lists this node under its own id
Matching == {FALSE}

\* one turn of the loop of healthCheck; cluster_states are the states the
\* head node may report, mismatches says whether it may list another id for
\* this node
healthCheck(cluster_states, mismatches) ==
    /\ \/ \E answered \in BOOLEAN : register(answered)
       \/ \E rsp \in Responses,
             cluster_state \in cluster_states, mismatch \in mismatches :
             nodestate(rsp, cluster_state, mismatch)
    /\ UNCHANGED <<pc, heap, s3keys, domains, roots, groups, datasets,
                   datatypes, chunks, bytes_in_bucket, bucket_stats,
                   pending_queue, deleted_objids, domains_updated, sw, now,
                   anonymous_ttl, manifests, enqueued, applied, dn_log, http,
                   last, published>>

\* ------------------------------------------------------ the initial state

NoSweep == [phase |-> "idle", deleted_ids |-> {}, dset |-> 0,
            todo |-> {}, deleted_chunk_ids |-> {}, deleted_count |-> 0]

NoOp == [op |-> "none", objid |-> Bad, outcome |-> "none"]

NotReadied == [node_state |-> "none", cluster_state |-> "none"]

\* objs_updated of updateDomainContent: None, or a set of ids
NotGiven == [given |-> FALSE, ids |-> <<>>]

Given(ids) == [given |-> TRUE, ids |-> ids]

NotPublished == [domain |-> Bad, objs_updated |-> NotGiven, written |-> {},
                 raised |-> FALSE, at |-> 0]

NoRequest == [method |-> "none", status |-> 0, has_body |-> FALSE,
              has_objids |-> FALSE, objids |-> <<>>, pc |-> "wait",
              before |-> <<>>, after |-> <<>>]

TTLs == {0, MaxTime}

Init ==
    /\ node_state = "INITIALIZING"
    /\ pc = "wait"
    /\ heap = EmptyMap
    /\ s3keys = EmptyMap
    /\ domains = EmptyMap
    /\ roots = EmptyMap
    /\ groups = EmptyMap
    /\ datasets = EmptyMap
    /\ datatypes = EmptyMap
    /\ chunks = EmptyMap
    /\ bytes_in_bucket = 0
    /\ bucket_stats = EmptyMap
    /\ pending_queue = <<>>
    /\ deleted_objids = {}
    /\ domains_updated = EmptyMap
    /\ sw = NoSweep
    /\ now = 0
    /\ anonymous_ttl \in TTLs
    /\ manifests = EmptyMap
    /\ enqueued = <<>>
    /\ applied = <<>>
    /\ dn_log = <<>>
    /\ http = NoRequest
    /\ last = NoOp
    /\ readied = NotReadied
    /\ published = NotPublished
    /\ mismatched = FALSE

\* bucketCheck leaves its first loop once node_state is READY
bucketCheckReady ==
    /\ pc = "wait"
    /\ node_state = "READY"
    /\ pc' = "list"
    /\ UNCHANGED <<node_state, heap, s3keys, domains, roots, groups, datasets,
                   datatypes, chunks, bytes_in_bucket, bucket_stats,
                   pending_queue, deleted_objids, domains_updated, sw, now,
                   anonymous_ttl, manifests, enqueued, applied, dn_log, http,
                   last, readied, published, mismatched>>

\* ------------------------------------------------------- Lister and Marker

\* the objects of the bucket when it is listed: the domain Dom with its root
\* group R1, a group, a dataset with its chunks, a datatype
ListOrder == <<Dom, R1, G1, D1, T1>>
                \o [k \in 1..NumChunks |-> Chunk(1, k)]

ListAddr(id) == CHOOSE a \in 1..Len(ListOrder) : ListOrder[a] = id

ListSize(id) ==
    CASE id = Dom -> 1
      [] id = R1 -> 1
      [] id = G1 -> 1
      [] id = D1 -> 2
      [] id = T1 -> 3
      [] OTHER -> 4

\* the record the Lister makes of a key, lm its LastModified
ListRecord(id, lm) ==
    LET stats == [ETag |-> "e0", Size |-> ListSize(id), LastModified |-> lm]
    IN  IF id = Dom THEN Put(stats, "root", R1)
        ELSE IF id = D1
        THEN Put(Put(stats, "used", FALSE), "chunks",
                 [c \in D1Chunks |-> ListAddr(c)])
        ELSE IF id = R1
        THEN Put(Put(Put(Put(stats, "used", FALSE), "groups", EmptyMap),
                     "datasets", EmptyMap), "datatypes", EmptyMap)
        ELSE Put(stats, "used", FALSE)

OfKind(p) == {ListOrder[a] : a \in {b \in 1..Len(ListOrder) : ListOrder[b][1] = p}}

\* the objects whose LastModified the listing draws from lms; the others
\* were last written at time 0
Aged == {D1, G1} \cup D1Chunks

\* the LastModified of the objects of Aged: all listed at time 0, or any time
ListedAtStart == {0}

Times == 0..MaxTime

\* listKeys(app): stat and classify every key of the bucket
listKeys(lms) ==
    /\ pc = "list"
    /\ \E aged \in [Aged -> lms] :
          LET lm(id) == IF id \in Aged THEN aged[id] ELSE 0
          IN  /\ heap' = [a \in 1..Len(ListOrder) |->
                             ListRecord(ListOrder[a], lm(ListOrder[a]))]
              /\ \A id \in Aged : aged[id] <= now
    /\ s3keys' = [k \in {getS3Key(id) : id \in Range(ListOrder)} |->
                     ListAddr(k[2])]
    /\ domains' = [d \in {Dom} |-> ListAddr(d)]
    /\ roots' = [r \in {R1} |-> ListAddr(r)]
    /\ groups' = [id \in OfKind("g") |-> ListAddr(id)]
    /\ datasets' = [id \in OfKind("d") |-> ListAddr(id)]
    /\ datatypes' = [id \in OfKind("t") |-> ListAddr(id)]
    /\ chunks' = [id \in OfKind("c") |-> ListAddr(id)]
    /\ bytes_in_bucket' =
          ListSize(Dom) + ListSize(R1) + ListSize(G1) + ListSize(D1)
              + ListSize(T1) + NumChunks * ListSize(Chunk(1, 1))
    /\ pc' = "mark"
    /\ UNCHANGED <<node_state, bucket_stats, pending_queue, deleted_objids,
                   domains_updated, sw, now, anonymous_ttl, manifests,
                   enqueued, applied, dn_log, http, last, readied,
                   published, mismatched>>

\* markObj(app, domain, updateLinks=True) for the domain Dom: linked are the
\* objects the root's link metadata reaches
markObj(linked) ==
    /\ pc = "mark"
    /\ LET ra == roots[R1]
           marked == {ra} \cup {ListAddr(id) : id \in linked}
                        \cup (IF D1 \in linked
                              THEN {ListAddr(c) : c \in D1Chunks} ELSE {})
           col(name) == [id \in {i \in linked : getCollectionForId(i) = name}
                            |-> ListAddr(id)]
       IN  heap' = [a \in DOMAIN heap |->
                      LET d == IF a \in marked
                               THEN Put(heap[a], "used", TRUE) ELSE heap[a]
                      IN  IF a = ra
                          THEN [d EXCEPT !.groups = col("groups"),
                                         !.datasets = col("datasets"),
                                         !.datatypes = col("datatypes")]
                          ELSE d]
    /\ pc' = "sweep"
    /\ UNCHANGED <<node_state, s3keys, domains, roots, groups, datasets,
                   datatypes, chunks, bytes_in_bucket, bucket_stats,
                   pending_queue, deleted_objids, domains_updated, sw, now,
                   anonymous_ttl, manifests, enqueued, applied, dn_log, http,
                   last, readied, published, mismatched>>

\* the objects the root of Dom may link
Linkable == {G1, D1, T1}

LinkSets == SUBSET Linkable

\* the link sets in which the datatype is linked and the dataset only with
\* the group
SomeLinkSets == {{G1, D1, T1}, {G1, T1}, {T1}}

\* ----------------------------------------------------------------- Sweeper

\* the kind index of an id: "chunks" for a chunk id, else getCollectionForId
CollectionOf(objid) ==
    IF isValidChunkId(objid) THEN "chunks" ELSE getCollectionForId(objid)

\* a sweepObj with no age test
NeverTooYoung(obj) == FALSE

\* an age test that also keeps an object modified exactly anonymous_ttl ago
TooYoungOrEqual(obj) == now - obj.LastModified <= anonymous_ttl

\* the age test of sweepObj, without its test of force: the object was
\* modified less than anonymous_ttl ago
TooYoung(obj) == now - obj.LastModified < anonymous_ttl

\* a sweepObj that leaves the kind index alone
SweptKeyOnly(g, objid, collection, num_bytes) ==
    [g EXCEPT !.s3keys = Del(@, getS3Key(objid)),
              !.bytes_in_bucket = @ - num_bytes]

\* the graph once the DN has deleted the object: it leaves its kind index
\* and s3keys (each when it is there), and its bytes are taken off
Swept(g, objid, collection, num_bytes) ==
    [g EXCEPT ![collection] = Del(@, objid),
              !.s3keys = Del(@, getS3Key(objid)),
              !.bytes_in_bucket = @ - num_bytes]

\* a sweepObj that takes the object off the graph whatever the DN answered
DeleteAnyway(g, objid, collection, num_bytes, dn_ok) ==
    [g |-> Swept(g, objid, collection, num_bytes), success |-> dn_ok,
     issued |-> TRUE]

\* sweepObj from the DN delete request on; dn_ok is its outcome
Delete(g, objid, collection, num_bytes, dn_ok) ==
    IF dn_ok
    THEN [g |-> Swept(g, objid, collection, num_bytes), success |-> TRUE,
          issued |-> TRUE]
    ELSE [g |-> g, success |-> FALSE, issued |-> TRUE]

NotSwept(g) == [g |-> g, success |-> FALSE, issued |-> FALSE]

\* sweepObj once the key is found in s3keys, obj its record
SweepRecord(g, objid, force, dn_ok, obj) ==
    IF ~Has(obj, "LastModified") THEN NotSwept(g)
    ELSE IF ~force /\ TooYoung(obj) THEN NotSwept(g)
    ELSE IF ~Has(obj, "Size") THEN NotSwept(g)
    ELSE Delete(g, objid, CollectionOf(objid), obj.Size, dn_ok)

\* sweepObj(app, objid, force): dn_ok is the outcome of the DN delete request.
\* The result holds the graph, the returned value, and whether the request
\* was issued.
sweepObj(g, objid, force, dn_ok) ==
    IF getS3Key(objid) \notin DOMAIN g.s3keys THEN NotSwept(g)
    ELSE SweepRecord(g, objid, force, dn_ok,
                     g.heap[g.s3keys[getS3Key(objid)]])

\* the entry of dn_log for a sweepObj call that issued its request: the
\* object, the outcome, and the age and the used flag of its record
DnEntry(g, objid, force, dn_ok) ==
    [objid |-> objid, ok |-> dn_ok, force |-> force,
     age |-> now - g.heap[g.s3keys[getS3Key(objid)]].LastModified,
     used |-> g.heap[g.s3keys[getS3Key(objid)]].used]

Logged(g, objid, force, dn_ok) ==
    IF sweepObj(g, objid, force, dn_ok).issued
    THEN Append(dn_log, DnEntry(g, objid, force, dn_ok))
    ELSE dn_log

\* every id of a kind index, whatever its record has for used
UsedOrNot(g, collection) == DOMAIN g[collection]

\* the ids of a kind index whose record has used = False
Unused(g, collection) ==
    {id \in DOMAIN g[collection] : ~g.heap[g[collection][id]].used}

\* sweepObjs between two sweepObj calls: when the list of a kind is
\* exhausted, the list of the next kind is built from its index
Advance(s, g) ==
    LET toGroups ==
            IF Unused(g, "groups") # {}
            THEN [s EXCEPT !.phase = "groups",
                           !.deleted_ids = Unused(g, "groups")]
            ELSE [s EXCEPT !.phase = "done", !.deleted_ids = {}]
        toDatatypes ==
            IF Unused(g, "datatypes") # {}
            THEN [s EXCEPT !.phase = "datatypes",
                           !.deleted_ids = Unused(g, "datatypes")]
            ELSE toGroups
    IN  IF s.deleted_ids # {} THEN s
        ELSE IF s.phase = "datasets" THEN toDatatypes
        ELSE IF s.phase = "datatypes" THEN toGroups
        ELSE IF s.phase = "groups" THEN [s EXCEPT !.phase = "done"]
        ELSE s

SetGraph(g) ==
    /\ heap' = g.heap
    /\ s3keys' = g.s3keys
    /\ domains' = g.domains
    /\ roots' = g.roots
    /\ groups' = g.groups
    /\ datasets' = g.datasets
    /\ datatypes' = g.datatypes
    /\ chunks' = g.chunks
    /\ bytes_in_bucket' = g.bytes_in_bucket
    /\ deleted_objids' = g.deleted_objids

\* the end of a step of sweepObjs: s are its locals and g the graph after
\* the step.  At the end of the pass bucket_stats["deleted_count"] grows by
\* the local deleted_count, which started from bucket_stats["deleted_count"].
SweepTo(s, g) ==
    LET t == Advance(s, g)
    IN  IF t.phase = "done"
        THEN /\ sw' = NoSweep
             /\ pc' = "stats"
             /\ bucket_stats' =
                   [bucket_stats EXCEPT !["deleted_count"] = @ + t.deleted_count]
             /\ SetGraph(Collect(g, {}))
        ELSE /\ sw' = t
             /\ pc' = pc
             /\ bucket_stats' = bucket_stats
             /\ SetGraph(Collect(g, {t.dset} \ {0}))

\* sweepObjs up to its first sweepObj call
sweepObjsStart ==
    /\ pc = "sweep"
    /\ sw.phase = "idle"
    /\ LET stats0 == IF Has(bucket_stats, "deleted_count") THEN bucket_stats
                     ELSE Put(bucket_stats, "deleted_count", 0)
           s == [NoSweep EXCEPT !.phase = "datasets",
                                !.deleted_ids = Unused(Graph, "datasets"),
                                !.deleted_count = stats0["deleted_count"]]
           t == Advance(s, Graph)
       IN  /\ sw' = IF t.phase = "done" THEN NoSweep ELSE t
           /\ pc' = IF t.phase = "done" THEN "stats" ELSE pc
           /\ bucket_stats' =
                 IF t.phase = "done"
                 THEN [stats0 EXCEPT !["deleted_count"] = @ + t.deleted_count]
                 ELSE stats0
    /\ last' = NoOp
    /\ UNCHANGED <<node_state, heap, s3keys, domains, roots, groups, datasets,
                   datatypes, chunks, bytes_in_bucket, pending_queue,
                   deleted_objids, domains_updated, now, anonymous_ttl,
                   manifests, enqueued, applied, dn_log, http, readied,
                   published, mismatched>>

SweepOutcome(r) ==
    IF r.success THEN "deleted" ELSE IF r.issued THEN "failed" ELSE "skipped"

\* a dataset loop that sweeps the chunks whatever sweepObj returned
ChunksAnyway(rest, success, dset_addr, dset_obj) ==
    IF ~Has(dset_obj, "chunks") THEN rest
    ELSE IF DOMAIN dset_obj.chunks = {} THEN rest
    ELSE [rest EXCEPT !.phase = "chunks",
                      !.dset = dset_addr,
                      !.todo = DOMAIN dset_obj.chunks,
                      !.deleted_chunk_ids = {}]

\* the locals of sweepObjs after the sweepObj of a dataset: when it returned
\* True the count grows and the loop over the chunks map starts
AfterDataset(rest, success, dset_addr, dset_obj) ==
    IF ~success THEN rest
    ELSE IF ~Has(dset_obj, "chunks")
    THEN [rest EXCEPT !.deleted_count = @ + 1]
    ELSE IF DOMAIN dset_obj.chunks = {}
    THEN [rest EXCEPT !.deleted_count = @ + 1]
    ELSE [rest EXCEPT !.deleted_count = @ + 1,
                      !.phase = "chunks",
                      !.dset = dset_addr,
                      !.todo = DOMAIN dset_obj.chunks,
                      !.deleted_chunk_ids = {}]

\* one dataset of deleted_ids: sweepObj, and on success the chunk loop starts
sweepDataset(dn_ok) ==
    /\ pc = "sweep"
    /\ sw.phase = "datasets"
    /\ \E dsetid \in sw.deleted_ids :
          /\ dn_log' = Logged(Graph, dsetid, FALSE, dn_ok)
          /\ last' = [op |-> "sweepObj", objid |-> dsetid,
                      outcome |->
                          SweepOutcome(sweepObj(Graph, dsetid, FALSE, dn_ok))]
          /\ SweepTo(AfterDataset([sw EXCEPT !.deleted_ids = @ \ {dsetid}],
                                  sweepObj(Graph, dsetid, FALSE, dn_ok).success,
                                  datasets[dsetid], heap[datasets[dsetid]]),
                     sweepObj(Graph, dsetid, FALSE, dn_ok).g)
    /\ UNCHANGED <<node_state, pending_queue, domains_updated, now,
                   anonymous_ttl, manifests, enqueued, applied, http, readied,
                   published, mismatched>>

\* one chunk of the swept dataset's chunks map; after the last one the
\* deleted chunks leave the map and the dataset loop goes on (sw.dset stays:
\* the locals dset_obj and dset_chunks keep the record until sweepObjs ends)
sweepChunk(dn_ok) ==
    /\ pc = "sweep"
    /\ sw.phase = "chunks"
    /\ \E chunkid \in sw.todo :
          LET r == sweepObj(Graph, chunkid, FALSE, dn_ok)
              deleted == IF r.success THEN sw.deleted_chunk_ids \cup {chunkid}
                         ELSE sw.deleted_chunk_ids
              todo == sw.todo \ {chunkid}
              dset_chunks == r.g.heap[sw.dset].chunks
              g1 == [r.g EXCEPT !.heap[sw.dset].chunks =
                        [c \in (DOMAIN dset_chunks) \ deleted |-> dset_chunks[c]]]
          IN  /\ dn_log' = Logged(Graph, chunkid, FALSE, dn_ok)
              /\ last' = [op |-> "sweepObj", objid |-> chunkid,
                          outcome |-> SweepOutcome(r)]
              /\ IF todo # {}
                 THEN SweepTo([sw EXCEPT !.todo = todo,
                                         !.deleted_chunk_ids = deleted], r.g)
                 ELSE SweepTo([sw EXCEPT !.phase = "datasets",
                                         !.todo = {},
                                         !.deleted_chunk_ids = {},
                                         !.deleted_count =
                                             @ + Cardinality(deleted)], g1)
    /\ UNCHANGED <<node_state, pending_queue, domains_updated, now,
                   anonymous_ttl, manifests, enqueued, applied, http, readied,
                   published, mismatched>>

\* one datatype or group of deleted_ids
sweepOther(dn_ok) ==
    /\ pc = "sweep"
    /\ sw.phase \in {"datatypes", "groups"}
    /\ \E objid \in sw.deleted_ids :
          LET r == sweepObj(Graph, objid, FALSE, dn_ok)
              rest == [sw EXCEPT !.deleted_ids = @ \ {objid}]
          IN  /\ dn_log' = Logged(Graph, objid, FALSE, dn_ok)
              /\ last' = [op |-> "sweepObj", objid |-> objid,
                          outcome |-> SweepOutcome(r)]
              /\ IF r.success
                 THEN SweepTo([rest EXCEPT !.deleted_count = @ + 1], r.g)
                 ELSE SweepTo(rest, r.g)
    /\ UNCHANGED <<node_state, pending_queue, domains_updated, now,
                   anonymous_ttl, manifests, enqueued, applied, http, readied,
                   published, mismatched>>

\* the clock advances
Tick ==
    /\ now < MaxTime
    /\ now' = now + 1
    /\ UNCHANGED <<node_state, pc, heap, s3keys, domains, roots, groups,
                   datasets, datatypes, chunks, bytes_in_bucket, bucket_stats,
                   pending_queue, deleted_objids, domains_updated, sw,
                   anonymous_ttl, manifests, enqueued, applied, dn_log, http,
                   last, readied, published, mismatched>>

\* ------------------------------------------------------ the HTTP handlers

Item(objid, action) == [objid |-> objid, action |-> action]

\* the second loop of a handler with no skip of the domain ids
RECURSIVE ItemsOfAll(_, _)
ItemsOfAll(objids, action) ==
    IF objids = <<>> THEN <<>>
    ELSE <<Item(Head(objids), action)>> \o ItemsOfAll(Tail(objids), action)

\* the second loop of a handler: the items appended for the ids of the body,
\* in their order, none for a domain id
RECURSIVE Items(_, _)
Items(objids, action) ==
    IF objids = <<>> THEN <<>>
    ELSE (IF isValidDomain(Head(objids)) THEN <<>>
          ELSE <<Item(Head(objids), action)>>)
         \o Items(Tail(objids), action)

\* the first loop of a handler: some id is neither a domain nor a UUID
Invalid(objids) ==
    \E i \in 1..Len(objids) :
        ~isValidDomain(objids[i]) /\ ~isValidUuid(objids[i])

\* the ids before the first invalid one
ValidPrefix(objids) ==
    SubSeq(objids, 1,
           IF Invalid(objids)
           THEN (CHOOSE i \in 1..Len(objids) :
                    /\ Invalid(SubSeq(objids, 1, i))
                    /\ ~Invalid(SubSeq(objids, 1, i - 1))) - 1
           ELSE Len(objids))

\* a handler that appends while it validates
AppendedWhileValidating(action, has_body, has_objids, objids) ==
    IF ~has_body \/ ~has_objids THEN <<>>
    ELSE Items(ValidPrefix(objids), action)

\* what a handler appends to pending_queue: nothing when it raises
\* HttpBadRequest
Appended(action, has_body, has_objids, objids) ==
    IF ~has_body \/ ~has_objids \/ Invalid(objids) THEN <<>>
    ELSE Items(objids, action)

\* the status of the response
Status(has_body, has_objids, objids) ==
    IF ~has_body \/ ~has_objids \/ Invalid(objids) THEN 400 ELSE 200

\* PUT /objects (action "PUT", PUT_Objects) and DELETE /objects (action
\* "DELETE", DELETE_Objects): the two handlers differ in the action of the
\* items only.  has_body is request.has_body, has_objids says whether the
\* body has the key "objids", objids is its value.  http records the request,
\* where bucketCheck stood, and the queue before and after it.
Objects(action, has_body, has_objids, objids) ==
    /\ Len(enqueued) + Len(Appended(action, has_body, has_objids, objids))
          <= MaxEvents
    /\ pending_queue' =
          pending_queue \o Appended(action, has_body, has_objids, objids)
    /\ enqueued' = enqueued \o Appended(action, has_body, has_objids, objids)
    /\ http' = [method |-> action,
                status |-> Status(has_body, has_objids, objids),
                has_body |-> has_body, has_objids |-> has_objids,
                objids |-> objids, pc |-> pc,
                before |-> pending_queue, after |-> pending_queue']
    /\ UNCHANGED <<node_state, pc, heap, s3keys, domains, roots, groups,
                   datasets, datatypes, chunks, bytes_in_bucket,
                   bucket_stats, deleted_objids, domains_updated, sw, now,
                   anonymous_ttl, manifests, applied, dn_log, last, readied,
                   published, mismatched>>

PUT_Objects(has_body, has_objids, objids) ==
    Objects("PUT", has_body, has_objids, objids)

DELETE_Objects(has_body, has_objids, objids) ==
    Objects("DELETE", has_body, has_objids, objids)

\* ------------------------------------------------------ the event applier

\* what the object store answers to a JSON fetch of an object: "error"
\* (HttpProcessingError), or a JSON object with no key ("nokeys"), with the
\* keys root and domain ("root"), or with root, rootid and domain ("full")
JsonResults == {"error", "nokeys", "root", "full"}

\* the root and the domain the JSON of an object names
HomeRoot(id) == IF id = G2 THEN R2 ELSE R1

HomeDomain(id) == IF id = G2 THEN <<"/", 2, 0>> ELSE Dom

\* the id whose JSON names the domain and root of objid
DomainItemId(objid) ==
    IF isValidChunkId(objid) THEN getDatasetId(objid) ELSE objid

\* the key None of a dict
None == <<"None", 0, 0>>

getDomainForObjid(objid, json) ==
    IF json \in {"error", "nokeys"} THEN None
    ELSE HomeDomain(DomainItemId(objid))

\* getRootForObjid: tests the key "root", then reads the key "rootid"; kind
\* "failed" is the None returned when the fetch raised HttpProcessingError
getRootForObjid(objid, json) ==
    IF json = "error" THEN [kind |-> "failed", rootid |-> None]
    ELSE IF json = "nokeys" THEN [kind |-> "none", rootid |-> None]
    ELSE IF json = "root" THEN [kind |-> "raise", rootid |-> None]
    ELSE [kind |-> "ok", rootid |-> HomeRoot(DomainItemId(objid))]

\* the collections of a root
RootCollections == {"datasets", "datatypes", "groups"}

\* the keys a placeholder root lacks, added as empty maps
WithCollections(d) ==
    [key \in (DOMAIN d) \cup RootCollections |->
        IF key \in DOMAIN d THEN d[key] ELSE EmptyMap]

\* heap[a], or the new dict {} when a is a new address
DictAt(g, a) == IF a \in DOMAIN g.heap THEN g.heap[a] ELSE EmptyMap

\* s3keys[getS3Key(id)], or the address of a new dict
RecordOrNew(g, id) ==
    IF getS3Key(id) \in DOMAIN g.s3keys THEN g.s3keys[getS3Key(id)]
    ELSE NewAddr(g)

\* a root record that enters roots and not s3keys
AddRootUnkeyed(g, rootid, ra) ==
    [g EXCEPT !.heap = Put(@, ra, WithCollections(DictAt(g, ra))),
              !.roots = Put(@, rootid, ra)]

\* the root missing from roots: its record ra (of s3keys, or new and put in
\* s3keys) gets its collections and enters roots
AddRoot(g, rootid, ra) ==
    [g EXCEPT !.heap = Put(@, ra, WithCollections(DictAt(g, ra))),
              !.s3keys = Put(@, getS3Key(rootid), ra),
              !.roots = Put(@, rootid, ra)]

WithRoot(g, rootid) ==
    IF rootid \in DOMAIN g.roots THEN g
    ELSE AddRoot(g, rootid, RecordOrNew(g, rootid))

\* the dataset missing from the root's datasets: its record da (of s3keys,
\* or new and put in s3keys) enters them
AddDataset(g, ra, dsetid, da) ==
    [g EXCEPT !.heap = [Put(@, da, DictAt(g, da)) EXCEPT
                           ![ra].datasets = Put(@, dsetid, da)],
              !.s3keys = Put(@, getS3Key(dsetid), da)]

WithDataset(g, ra, dsetid) ==
    IF dsetid \in DOMAIN g.heap[ra].datasets THEN g
    ELSE AddDataset(g, ra, dsetid, RecordOrNew(g, dsetid))

\* the chunks map of the dataset record da, added when missing
ChunksOf(g, da) ==
    [g |-> IF Has(g.heap[da], "chunks") THEN g
           ELSE [g EXCEPT !.heap[da] = Put(@, "chunks", EmptyMap)],
     kind |-> "ok", addr |-> da, key |-> "chunks"]

NoCollection(g, kind) == [g |-> g, kind |-> kind, addr |-> 0, key |-> "none"]

\* getDomainCollectionForObjId once the root record ra is in roots
CollectionIn(g, ra, objid) ==
    IF isValidChunkId(objid)
    THEN IF ~Has(g.heap[ra], "datasets") THEN NoCollection(g, "none")
         ELSE ChunksOf(WithDataset(g, ra, getDatasetId(objid)),
                       WithDataset(g, ra, getDatasetId(objid))
                           .heap[ra].datasets[getDatasetId(objid)])
    ELSE IF ~Has(g.heap[ra], getCollectionForId(objid))
    THEN NoCollection(g, "none")
    ELSE [g |-> g, kind |-> "ok", addr |-> ra,
          key |-> getCollectionForId(objid)]

CollectionOfRoot(g, rootid, objid) == CollectionIn(g, g.roots[rootid], objid)

\* getDomainCollectionForObjId.  The result holds the graph (placeholders
\* added) and the collection as the place heap[addr][key]; kind is "none"
\* or "failed" (returns None), "raise" (an exception leaves it) or "ok".
getDomainCollectionForObjId(g, objid, json) ==
    IF getRootForObjid(objid, json).kind # "ok"
    THEN NoCollection(g, getRootForObjid(objid, json).kind)
    ELSE CollectionOfRoot(WithRoot(g, getRootForObjid(objid, json).rootid),
                          getRootForObjid(objid, json).rootid, objid)

StatKeys == {"Size", "ETag", "LastModified"}

\* the keys of a record other than the three stat keys
Extras(d) == (DOMAIN d) \ StatKeys

\* what getS3ObjStats answers: ok = FALSE (HttpProcessingError) or the stats
StatResults ==
    {[ok |-> FALSE, stats |-> [ETag |-> "", Size |-> 0, LastModified |-> 0]],
     [ok |-> TRUE, stats |-> [ETag |-> "e1", Size |-> 5, LastModified |-> now]]}

Outcome(g, outcome) == [g |-> g, outcome |-> outcome]

\* the expected keys of a record, added when missing
Expected(s3stats, collection) ==
    [key \in (DOMAIN s3stats) \cup {"used"}
               \cup (IF collection = "datasets" THEN {"chunks"} ELSE {}) |->
        IF key \in DOMAIN s3stats THEN s3stats[key]
        ELSE IF key = "used" THEN FALSE ELSE EmptyMap]

\* domain_col[objid] = s3stats, the last line of objUpdate
Attach(dc, g1, objid, na) ==
    IF dc.kind = "raise" THEN Outcome(g1, "raise")
    ELSE IF dc.kind = "failed" THEN Outcome(dc.g, "fetch_failed")
    ELSE IF dc.kind = "none" THEN Outcome(dc.g, "no_collection")
    ELSE Outcome([dc.g EXCEPT !.heap[dc.addr][dc.key] = Put(@, objid, na)],
                 "ok")

\* objUpdate that leaves bytes_in_bucket alone
StoredUncounted(g, objid, s3stats, old_size, na) ==
    [g EXCEPT !.heap = Put(@, na, s3stats),
              !.s3keys = Put(@, getS3Key(objid), na),
              ![CollectionOf(objid)] = Put(@, objid, na)]

\* objUpdate from s3keys[s3key] = s3stats to global_collection[objid] =
\* s3stats: the record, at the new address na, enters s3keys, the size of
\* the bucket is adjusted, the record enters its kind index
Stored(g, objid, s3stats, old_size, na) ==
    [g EXCEPT !.heap = Put(@, na, s3stats),
              !.s3keys = Put(@, getS3Key(objid), na),
              !.bytes_in_bucket = (@ - old_size) + s3stats.Size,
              ![CollectionOf(objid)] = Put(@, objid, na)]

\* the rest of objUpdate: the record enters its domain collection
Install(g, objid, s3stats, old_size, json, na) ==
    Attach(getDomainCollectionForObjId(Stored(g, objid, s3stats, old_size, na),
                                       objid, json),
           Stored(g, objid, s3stats, old_size, na), objid, na)

\* the copy loop bound s3stats to the nested map k of the old record (its
\* keys are ids): the map gets the expected keys and becomes the entry of
\* s3keys, the old size is taken off, then s3stats["Size"] raises.  The cell
\* alias_of at the address aa stands for that map.
Aliased(g, objid, k, old_size, aa) ==
    [g EXCEPT !.heap = Put(@, aa, Expected([alias_of |-> k], CollectionOf(objid))),
              !.s3keys = Put(@, getS3Key(objid), aa),
              !.bytes_in_bucket = @ - old_size]

\* objUpdate when s3keys holds the key: the copy loop binds s3stats to the
\* value of each key of the old record that is no stat key, k the last one
Replace(g, objid, stat, json, k, old_stats) ==
    IF ~Has(old_stats, "Size") THEN Outcome(g, "raise")
    ELSE IF Extras(old_stats) = {}
    THEN Install(g, objid, Expected(stat.stats, CollectionOf(objid)),
                 old_stats.Size, json, NewAddr(g))
    ELSE IF k \in MapKeys
    THEN Outcome(Aliased(g, objid, k, old_stats.Size, NewAddr(g)), "raise")
    ELSE Outcome(g, "raise")

\* an objUpdate that forgets the key of the object whose stat failed
StatFailedForgets(g, objid) ==
    Outcome([g EXCEPT !.s3keys =
                [key \in (DOMAIN @) \ {getS3Key(objid)} |-> @[key]]],
            "stat_failed")

\* objUpdate when getS3ObjStats raises HttpProcessingError: it logs and
\* returns
StatFailed(g, objid) == Outcome(g, "stat_failed")

\* objUpdate(app, objid).  stat and json are the answers of the object
\* store; k is the last key of the old record that the copy loop visits
\* (the order of a dict is not fixed).  outcome "raise": an exception
\* leaves objUpdate.
objUpdate(g, objid, stat, json, k) ==
    IF ~isValidChunkId(objid) /\ ~isValidUuid(objid)
    THEN Outcome(g, "invalid")
    ELSE IF ~stat.ok THEN StatFailed(g, objid)
    ELSE IF getS3Key(objid) \in DOMAIN g.s3keys
    THEN Replace(g, objid, stat, json, k, g.heap[g.s3keys[getS3Key(objid)]])
    ELSE Install(g, objid, Expected(stat.stats, CollectionOf(objid)), 0, json,
                 NewAddr(g))

\* del domain_col[objid], the last line of objDelete
Detach(dc, g3, objid) ==
    IF dc.kind = "raise" THEN Outcome(g3, "raise")
    ELSE IF dc.kind = "failed" THEN Outcome(dc.g, "fetch_failed")
    ELSE IF dc.kind = "none" THEN Outcome(dc.g, "no_collection")
    ELSE IF objid \notin DOMAIN dc.g.heap[dc.addr][dc.key]
    THEN Outcome(dc.g, "raise")
    ELSE Outcome([dc.g EXCEPT !.heap[dc.addr][dc.key] = Del(@, objid)], "ok")

\* objDelete from del s3keys[s3key] on; g1 has lost the entry s3stats
Remove(g1, objid, s3stats, json) ==
    IF ~Has(s3stats, "Size") THEN Outcome(g1, "raise")
    ELSE IF objid \notin DOMAIN g1[CollectionOf(objid)]
    THEN Outcome([g1 EXCEPT !.bytes_in_bucket = @ - s3stats.Size], "raise")
    ELSE Detach(getDomainCollectionForObjId(
                    [g1 EXCEPT !.bytes_in_bucket = @ - s3stats.Size,
                               ![CollectionOf(objid)] = Del(@, objid)],
                    objid, json),
                [g1 EXCEPT !.bytes_in_bucket = @ - s3stats.Size,
                           ![CollectionOf(objid)] = Del(@, objid)],
                objid)

\* objDelete(app, objid)
objDelete(g, objid, json) ==
    IF ~isValidChunkId(objid) /\ ~isValidUuid(objid)
    THEN Outcome(g, "invalid")
    ELSE IF getS3Key(objid) \notin DOMAIN g.s3keys
    THEN Outcome([g EXCEPT !.deleted_objids = @ \cup {objid}], "not_indexed")
    ELSE Remove([g EXCEPT !.deleted_objids = @ \cup {objid},
                          !.s3keys = Del(@, getS3Key(objid))],
                objid, g.heap[g.s3keys[getS3Key(objid)]], json)

\* domainDelete(app, domain)
domainDelete(g, domain) ==
    LET domain_key == getS3Key(domain)
        g1 == IF domain_key \in DOMAIN g.s3keys
              THEN [g EXCEPT !.s3keys = Del(@, domain_key),
                             !.bytes_in_bucket =
                                 @ - g.heap[g.s3keys[domain_key]].Size]
              ELSE g
    IN  IF domain \notin DOMAIN g.domains
        THEN [g |-> g, outcome |-> "not_indexed"]
        ELSE [g |-> [g1 EXCEPT !.domains = Del(@, domain)], outcome |-> "ok"]

\* domainCreate(app, domain): neither store call is guarded
domainCreate(g, domain, stat, json) ==
    LET domain_key == getS3Key(domain)
        domain_obj == IF json \in {"root", "full"}
                      THEN Put(stat.stats, "root", HomeRoot(domain))
                      ELSE stat.stats
        na == NewAddr(g)
    IN  IF domain_key \in DOMAIN g.s3keys \/ domain \in DOMAIN g.domains
        THEN [g |-> g, outcome |-> "not_expected"]
        ELSE IF ~stat.ok \/ json = "error"
        THEN [g |-> g, outcome |-> "raise"]
        ELSE [g |-> [g EXCEPT !.heap = Put(@, na, domain_obj),
                              !.s3keys = Put(@, domain_key, na),
                              !.domains = Put(@, domain, na),
                              !.bytes_in_bucket = @ + domain_obj.Size],
              outcome |-> "ok"]

\* the dirty-set map after the applied objid resolved to domain: the test
\* that guards the map reads the dict domains, which is never None
Dirty(updated, domain, objid) ==
    IF domain \in DOMAIN updated
    THEN [updated EXCEPT ![domain] = @ \cup {objid}]
    ELSE Put(updated, domain, {objid})

\* the steady loop wakes from its sleep and starts a tick
wake ==
    /\ pc = "sleep"
    /\ pc' = "drain"
    /\ domains_updated' = EmptyMap
    /\ UNCHANGED <<node_state, heap, s3keys, domains, roots, groups, datasets,
                   datatypes, chunks, bytes_in_bucket, bucket_stats,
                   pending_queue, deleted_objids, sw, now, anonymous_ttl,
                   manifests, enqueued, applied, dn_log, http, last, readied,
                   published, mismatched>>

\* the operation the drain loop calls for an item
OpOf(item) ==
    IF isValidDomain(item.objid)
    THEN (IF item.action = "DELETE" THEN "domainDelete"
          ELSE IF item.action = "PUT" THEN "domainCreate" ELSE "none")
    ELSE IF isValidChunkId(item.objid) \/ isValidUuid(item.objid)
    THEN (IF item.action = "PUT" THEN "objUpdate"
          ELSE IF item.action = "DELETE" THEN "objDelete" ELSE "none")
    ELSE "none"

Apply(g, item, stat, json, k) ==
    CASE OpOf(item) = "domainDelete" -> domainDelete(g, item.objid)
      [] OpOf(item) = "domainCreate" -> domainCreate(g, item.objid, stat, json)
      [] OpOf(item) = "objUpdate" -> objUpdate(g, item.objid, stat, json, k)
      [] OpOf(item) = "objDelete" -> objDelete(g, item.objid, json)
      [] OTHER -> Outcome(g, "unexpected")

\* the item is applied with the result r; domain is what getDomainForObjid
\* then answers for an object
Applied(item, r, domain) ==
    /\ applied' = Append(applied, item)
    /\ last' = [op |-> OpOf(item), objid |-> item.objid, outcome |-> r.outcome]
    /\ SetGraph(Collect(r.g, {}))
    /\ pc' = IF r.outcome = "raise" THEN "crashed" ELSE pc
    /\ domains_updated' =
          IF r.outcome # "raise" /\ OpOf(item) \in {"objUpdate", "objDelete"}
          THEN Dirty(domains_updated, domain, item.objid)
          ELSE domains_updated

\* a drain that takes the newest item
popLast(queue) ==
    [item |-> queue[Len(queue)], rest |-> SubSeq(queue, 1, Len(queue) - 1)]

\* pending_queue.pop(0)
pop(queue) == [item |-> Head(queue), rest |-> Tail(queue)]

\* one turn of the drain loop: pop the first item and apply it.  stat, json
\* and k are the inputs of objUpdate / objDelete / domainCreate, json2 the
\* answer to the JSON fetch of getDomainForObjid.
applyItem(stat, json, k, json2) ==
    /\ pc = "drain"
    /\ pending_queue # <<>>
    /\ Applied(pop(pending_queue).item,
               Apply(Graph, pop(pending_queue).item, stat, json, k),
               getDomainForObjid(pop(pending_queue).item.objid, json2))
    /\ pending_queue' = pop(pending_queue).rest
    /\ UNCHANGED <<node_state, bucket_stats, sw, now, anonymous_ttl,
                   manifests, enqueued, dn_log, http, readied,
                   published, mismatched>>

\* a tick that leaves the drain loop whatever the queue holds
drainLeft ==
    /\ pc = "drain"
    /\ pc' = "sleep"
    /\ UNCHANGED <<node_state, heap, s3keys, domains, roots, groups, datasets,
                   datatypes, chunks, bytes_in_bucket, bucket_stats,
                   pending_queue, deleted_objids, domains_updated, sw, now,
                   anonymous_ttl, manifests, enqueued, applied, dn_log, http,
                   last, readied, published, mismatched>>

\* the drain loop finds the queue empty: the tick logs the dirty domains
\* (the call of updateDomainContent is commented out) and sleeps again
drainDone ==
    /\ pc = "drain"
    /\ pending_queue = <<>>
    /\ pc' = "sleep"
    /\ UNCHANGED <<node_state, heap, s3keys, domains, roots, groups, datasets,
                   datatypes, chunks, bytes_in_bucket, bucket_stats,
                   pending_queue, deleted_objids, domains_updated, sw, now,
                   anonymous_ttl, manifests, enqueued, applied, dn_log, http,
                   last, readied, published, mismatched>>

\* ------------------------------------------------- stats and the Publisher

\* updateBucketStats(app): the counts of the indexes that exist (the Lister
\* creates them); the test for the roots reads the key "root" of app, which
\* nothing sets
updateBucketStats(stats, g, listed, queue) ==
    LET counts == [object_count |-> Cardinality(DOMAIN g.s3keys),
                   domain_count |-> Cardinality(DOMAIN g.domains),
                   group_count |-> Cardinality(DOMAIN g.groups),
                   dataset_count |-> Cardinality(DOMAIN g.datasets),
                   datatype_count |-> Cardinality(DOMAIN g.datatypes),
                   chunk_count |-> Cardinality(DOMAIN g.chunks),
                   storage_size |-> g.bytes_in_bucket]
        set == (IF listed THEN DOMAIN counts ELSE {}) \cup {"pending_count"}
    IN  [key \in (DOMAIN stats) \cup set |->
            IF key = "pending_count" THEN Len(queue)
            ELSE IF key \in set THEN counts[key] ELSE stats[key]]

Listed == pc \notin {"wait", "list"}

bucketStats ==
    /\ pc = "stats"
    /\ bucket_stats' = updateBucketStats(bucket_stats, Graph, Listed, pending_queue)
    /\ pc' = "publish"
    /\ UNCHANGED <<node_state, heap, s3keys, domains, roots, groups, datasets,
                   datatypes, chunks, bytes_in_bucket, pending_queue,
                   deleted_objids, domains_updated, sw, now, anonymous_ttl,
                   manifests, enqueued, applied, dn_log, http, last, readied,
                   published, mismatched>>

\* the order of ids as strings: by prefix, then by number
Rank(id) == CASE id[1] = "/" -> 0 [] id[1] = "c" -> 1 [] id[1] = "d" -> 2
              [] id[1] = "g" -> 3 [] id[1] = "t" -> 4 [] OTHER -> 5

IdLess(a, b) ==
    \/ Rank(a) < Rank(b)
    \/ Rank(a) = Rank(b) /\ a[2] < b[2]
    \/ Rank(a) = Rank(b) /\ a[2] = b[2] /\ a[3] < b[3]

\* list(keys) followed by sort()
RECURSIVE Sorted(_)
Sorted(ids) ==
    IF ids = {} THEN <<>>
    ELSE LET m == CHOOSE x \in ids : \A y \in ids : y = x \/ IdLess(x, y)
         IN  <<m>> \o Sorted(ids \ {m})

\* the keys of the manifests: <domain>/.<collection>.txt and
\* <domain>/.<dsetid>.chunks.txt
CollectionKey(domain, collection) == <<domain, <<collection, 0, 0>>>>

ChunksKey(domain, dsetid) == <<domain, dsetid>>

\* chunk_id[39:], the coordinates of a chunk id
Suffix(chunk_id) == <<"", 0, chunk_id[3]>>

Line(name, obj) == <<name, obj.ETag, obj.LastModified, obj.Size>>

FullRecord(obj) == StatKeys \subseteq DOMAIN obj

Written(m) == [m |-> m, raised |-> FALSE]

Raised(m) == [m |-> m, raised |-> TRUE]

\* the chunk manifest of the chunks listed (those with an ETag, sorted)
ChunkLines(g, m, key, failed, chunkmap, listed) ==
    IF \E i \in 1..Len(listed) : ~FullRecord(g.heap[chunkmap[listed[i]]])
    THEN Raised(m)
    ELSE IF key \in failed THEN Written(m)
    ELSE Written(Put(m, key,
                     [i \in 1..Len(listed) |->
                         Line(Suffix(listed[i]), g.heap[chunkmap[listed[i]]])]))

Initialized(g, chunkmap, chunk_ids) ==
    LET HasETag(c) == Has(g.heap[chunkmap[c]], "ETag")
    IN  SelectSeq(chunk_ids, HasETag)

ChunkContents(g, m, domain, dsetid, failed, dset_obj) ==
    IF ~Has(dset_obj, "chunks") THEN Raised(m)
    ELSE IF DOMAIN dset_obj.chunks = {} THEN Written(m)
    ELSE ChunkLines(g, m, ChunksKey(domain, dsetid), failed, dset_obj.chunks,
                    Initialized(g, dset_obj.chunks, Sorted(DOMAIN dset_obj.chunks)))

\* updateDatasetContents(app, domain, dsetid): m are the manifests, failed
\* the keys whose putS3Bytes fails.  raised: an exception leaves it.
updateDatasetContents(g, m, domain, dsetid, failed) ==
    IF dsetid \notin DOMAIN g.datasets THEN Written(m)
    ELSE ChunkContents(g, m, domain, dsetid, failed, g.heap[g.datasets[dsetid]])

\* a filter that takes the chunks of every dataset
ChunksAlwaysIncluded(objs_updated, dsetid) == TRUE

\* with objs_updated given, the chunk manifest of a dataset is updated only
\* when a chunk of the dataset is among the ids
ChunksIncluded(objs_updated, dsetid) ==
    \/ ~objs_updated.given
    \/ \E updated_id \in Range(objs_updated.ids) :
          isValidChunkId(updated_id) /\ getDatasetId(updated_id) = dsetid

\* the chunk manifests of the datasets col_ids[i..], in order
RECURSIVE DatasetContents(_, _, _, _, _, _, _)
DatasetContents(g, r, domain, col_ids, i, failed, objs_updated) ==
    IF i > Len(col_ids) \/ r.raised THEN r
    ELSE IF ~ChunksIncluded(objs_updated, col_ids[i])
    THEN DatasetContents(g, r, domain, col_ids, i + 1, failed, objs_updated)
    ELSE DatasetContents(g, updateDatasetContents(g, r.m, domain, col_ids[i],
                                                  failed),
                         domain, col_ids, i + 1, failed, objs_updated)

\* how many records of the collection, in order, have their stat keys: the
\* line of the next one raises
RECURSIVE Whole(_, _, _, _)
Whole(g, domain_col, col_ids, i) ==
    IF i > Len(col_ids) THEN 0
    ELSE IF ~FullRecord(g.heap[domain_col[col_ids[i]]]) THEN 0
    ELSE 1 + Whole(g, domain_col, col_ids, i + 1)

\* the manifest of a collection, after the chunk manifests d of its datasets
CollectionLines(g, d, key, failed, domain_col, col_ids, whole) ==
    IF d.raised \/ whole < Len(col_ids) THEN Raised(d.m)
    ELSE IF key \in failed THEN Written(d.m)
    ELSE Written(Put(d.m, key,
                     [i \in 1..Len(col_ids) |->
                         Line(col_ids[i], g.heap[domain_col[col_ids[i]]])]))

WriteCollection(g, m, domain, collection, failed, domain_col, col_ids, whole, objs_updated) ==
    CollectionLines(g,
                    IF collection = "datasets"
                    THEN DatasetContents(g, Written(m), domain,
                                         SubSeq(col_ids, 1, whole), 1, failed,
                                         objs_updated)
                    ELSE Written(m),
                    CollectionKey(domain, collection), failed, domain_col,
                    col_ids, whole)

SortedCollection(g, m, domain, collection, failed, domain_col, col_ids, objs_updated) ==
    WriteCollection(g, m, domain, collection, failed, domain_col, col_ids,
                    Whole(g, domain_col, col_ids, 1), objs_updated)

\* the loop over objs_updated, from the i-th id on: "yes" at the first id of
\* the kind of the collection (a chunk id for the datasets), "no" when the
\* ids are exhausted, "raise" at an id getCollectionForId has no kind for
RECURSIVE CollectionIncluded(_, _, _)
CollectionIncluded(ids, i, collection) ==
    IF i > Len(ids) THEN "no"
    ELSE IF isValidChunkId(ids[i]) /\ collection = "datasets" THEN "yes"
    ELSE IF getCollectionForId(ids[i]) = "err" THEN "raise"
    ELSE IF getCollectionForId(ids[i]) = collection THEN "yes"
    ELSE CollectionIncluded(ids, i + 1, collection)

\* a filter that takes every collection whatever objs_updated holds
AlwaysIncluded(objs_updated, collection) == "yes"

\* with objs_updated given, a collection is skipped unless one of the ids is
\* of its kind, a chunk id counting for the datasets
Included(objs_updated, collection) ==
    IF ~objs_updated.given THEN "yes"
    ELSE CollectionIncluded(objs_updated.ids, 1, collection)

\* one collection of updateDomainContent
CollectionContent(g, m, domain, root_obj, collection, failed, objs_updated) ==
    IF Included(objs_updated, collection) = "raise" THEN Raised(m)
    ELSE IF Included(objs_updated, collection) = "no" THEN Written(m)
    ELSE IF ~Has(root_obj, collection) THEN Raised(m)
    ELSE IF DOMAIN root_obj[collection] = {} THEN Written(m)
    ELSE SortedCollection(g, m, domain, collection, failed,
                          root_obj[collection],
                          Sorted(DOMAIN root_obj[collection]), objs_updated)

CollectionOrder == <<"groups", "datatypes", "datasets">>

RECURSIVE Collections(_, _, _, _, _, _, _)
Collections(g, r, domain, root_obj, i, failed, objs_updated) ==
    IF i > Len(CollectionOrder) \/ r.raised THEN r
    ELSE Collections(g, CollectionContent(g, r.m, domain, root_obj,
                                          CollectionOrder[i], failed,
                                          objs_updated),
                     domain, root_obj, i + 1, failed, objs_updated)

\* updateDomainContent(app, domain, objs_updated): the manifests after it,
\* and whether an exception left it
updateDomainContent(g, m, domain, failed, objs_updated) ==
    IF domain \notin DOMAIN g.domains THEN Raised(m)
    ELSE IF ~Has(g.heap[g.domains[domain]], "root") THEN Written(m)
    ELSE IF g.heap[g.domains[domain]].root \notin DOMAIN g.roots
    THEN Written(m)
    ELSE Collections(g, Written(m), domain,
                     g.heap[g.roots[g.heap[g.domains[domain]].root]], 1, failed,
                     objs_updated)

\* the keys the call hands to putS3Bytes with success
WrittenKeys(g, domain, failed, objs_updated) ==
    DOMAIN updateDomainContent(g, EmptyMap, domain, failed, objs_updated).m

\* what the call leaves in the history
Publication(g, domain, failed, objs_updated) ==
    [domain |-> domain, objs_updated |-> objs_updated,
     written |-> WrittenKeys(g, domain, failed, objs_updated),
     raised |-> updateDomainContent(g, EmptyMap, domain, failed,
                                    objs_updated).raised,
     at |-> Len(applied)]

RECURSIVE DomainContents(_, _, _, _, _)
DomainContents(g, m, ds, i, failed) ==
    IF i > Len(ds) THEN m
    ELSE DomainContents(g, updateDomainContent(g, m, ds[i], failed,
                                               NotGiven).m,
                        ds, i + 1, failed)

\* the Publisher pass of the initial cycle: every domain; an exception of a
\* domain is logged and the next domain follows
publishAll(failed) ==
    /\ pc = "publish"
    /\ manifests' = DomainContents(Graph, manifests, Sorted(DOMAIN domains),
                                   1, failed)
    /\ published' =
          IF DOMAIN domains = {} THEN published
          ELSE Publication(Graph,
                           Sorted(DOMAIN domains)[Cardinality(DOMAIN domains)],
                           failed, NotGiven)
    /\ pc' = "sleep"
    /\ UNCHANGED <<node_state, heap, s3keys, domains, roots, groups, datasets,
                   datatypes, chunks, bytes_in_bucket, bucket_stats,
                   pending_queue, deleted_objids, domains_updated, sw, now,
                   anonymous_ttl, enqueued, applied, dn_log, http,
                   last, readied, mismatched>>

\* a call updateDomainContent(app, domain, objs_updated) while the loop
\* sleeps between two ticks (the call of the steady loop is commented out;
\* bucketCheck makes no such call)
publish(domain, failed, objs_updated) ==
    /\ pc = "sleep"
    /\ domain \in DOMAIN domains
    /\ manifests' =
          updateDomainContent(Graph, manifests, domain, failed, objs_updated).m
    /\ published' = Publication(Graph, domain, failed, objs_updated)
    /\ UNCHANGED <<node_state, pc, heap, s3keys, domains, roots, groups,
                   datasets, datatypes, chunks, bytes_in_bucket, bucket_stats,
                   pending_queue, deleted_objids, domains_updated, sw, now,
                   anonymous_ttl, enqueued, applied, dn_log, http, last,
                   readied, mismatched>>

\* GET /async_info: updateBucketStats, then the answer is app["bucket_stats"]
GET_AsyncInfo ==
    /\ bucket_stats' =
          updateBucketStats(bucket_stats, Graph, Listed, pending_queue)
    /\ http' = [NoRequest EXCEPT !.method = "GET", !.status = 200]
    /\ UNCHANGED <<node_state, pc, heap, s3keys, domains, roots, groups,
                   datasets, datatypes, chunks, bytes_in_bucket,
                   pending_queue, deleted_objids, domains_updated, sw, now,
                   anonymous_ttl, manifests, enqueued, applied, dn_log, last,
                   readied, published, mismatched>>

\* --------------------------------------------------------- specifications

\* the sequences of at most MaxBatch ids of a set
Bodies(ids) == UNION {[1..n -> ids] : n \in 0..MaxBatch}

Request(has_body, has_objids, objids) ==
    [has_body |-> has_body, has_objids |-> has_objids, objids |-> objids]

\* the requests: without a body, with a body that lacks objids, with the
\* objids of a group, a chunk, a domain, and an id of no kind
Requests ==
    {Request(FALSE, FALSE, <<>>), Request(TRUE, FALSE, <<>>)}
        \cup {Request(TRUE, TRUE, b) : b \in Bodies({G2, Chunk(1, 1), Dom, Bad})}

\* the objects the service nodes notify of
NotifiedIds == {G2, D1, Chunk(1, 1)}

\* the requests that notify of one object: a group, a dataset, a chunk
Notifications ==
    {Request(TRUE, TRUE, <<id>>) : id \in NotifiedIds}

\* the choices of the copy loop of objUpdate for the first item of the queue
LastKeys ==
    IF /\ pending_queue # <<>>
       /\ getS3Key(Head(pending_queue).objid) \in DOMAIN s3keys
       /\ Extras(heap[s3keys[getS3Key(Head(pending_queue).objid)]]) # {}
    THEN Extras(heap[s3keys[getS3Key(Head(pending_queue).objid)]])
    ELSE {"used"}

\* The node from its start, the head node reporting a ready cluster, the
\* bucket listed at time 0 with the datatype linked, every outcome of the DN
\* deletes; the notifications of objects arrive once the steady cycle runs,
\* and both JSON fetches of an item get the same answer.
Next ==
    \/ healthCheck(ClusterReady, Matching)
    \/ bucketCheckReady
    \/ listKeys(ListedAtStart)
    \/ \E linked \in SomeLinkSets : markObj(linked)
    \/ sweepObjsStart
    \/ \E dn_ok \in BOOLEAN : sweepDataset(dn_ok)
    \/ \E dn_ok \in BOOLEAN : sweepChunk(dn_ok)
    \/ \E dn_ok \in BOOLEAN : sweepOther(dn_ok)
    \/ bucketStats
    \/ publishAll({})
    \/ /\ pc \in {"sleep", "drain"}
       /\ \E req \in Notifications :
             PUT_Objects(req.has_body, req.has_objids, req.objids)
    \/ /\ pc \in {"sleep", "drain"}
       /\ \E req \in Notifications :
             DELETE_Objects(req.has_body, req.has_objids, req.objids)
    \/ wake
    \/ \E stat \in StatResults, json \in JsonResults, k \in LastKeys :
          applyItem(stat, json, k, json)
    \/ drainDone

Spec == Init /\ [][Next]_vars

\* The same node with every object of the bucket linked (nothing to sweep)
\* and every request, the rejected ones included; the JSON of an object is
\* fetched in full.
NextHttp ==
    \/ healthCheck(ClusterReady, Matching)
    \/ bucketCheckReady
    \/ listKeys(ListedAtStart)
    \/ markObj(Linkable)
    \/ sweepObjsStart
    \/ bucketStats
    \/ publishAll({})
    \/ /\ pc \in {"sleep", "drain"}
       /\ \E req \in Requests :
             PUT_Objects(req.has_body, req.has_objids, req.objids)
    \/ /\ pc \in {"sleep", "drain"}
       /\ \E req \in Requests :
             DELETE_Objects(req.has_body, req.has_objids, req.objids)
    \/ wake
    \/ \E stat \in StatResults, k \in LastKeys :
          applyItem(stat, "full", k, "full")
    \/ drainDone

SpecHttp == Init /\ [][NextHttp]_vars

\* The initial cycle up to the end of the sweep, the clock running, the
\* objects of the bucket of any age.
NextSweep ==
    \/ healthCheck(ClusterStates, BOOLEAN)
    \/ bucketCheckReady
    \/ listKeys(Times)
    \/ \E linked \in LinkSets : markObj(linked)
    \/ sweepObjsStart
    \/ \E dn_ok \in BOOLEAN : sweepDataset(dn_ok)
    \/ \E dn_ok \in BOOLEAN : sweepChunk(dn_ok)
    \/ \E dn_ok \in BOOLEAN : sweepOther(dn_ok)
    \/ Tick

SpecSweep == Init /\ [][NextSweep]_vars

\* the objects the service nodes notify of while the manifests are examined
PublishedIds == {G1, Chunk(1, 1)}

PublishNotifications ==
    {Request(TRUE, TRUE, <<id>>) : id \in PublishedIds}

\* the values of objs_updated: None, or the ids of a set in the order the
\* loops meet them
UpdatedSets ==
    {NotGiven, Given(<<>>), Given(<<G1>>), Given(<<D1>>),
     Given(<<Chunk(1, 1)>>), Given(<<G1, T1, Chunk(1, 1)>>)}

\* every object linked, or the dataset linked by nothing
PublishLinkSets == {{G1, D1, T1}, {G1, T1}}

\* The node of Spec with the data nodes and the store answering every call,
\* the notifications of a group and a chunk, and between the ticks the calls
\* of updateDomainContent for the domain and the requests GET /async_info.
NextPublish ==
    \/ healthCheck(ClusterReady, Matching)
    \/ bucketCheckReady
    \/ listKeys(ListedAtStart)
    \/ \E linked \in PublishLinkSets : markObj(linked)
    \/ sweepObjsStart
    \/ sweepDataset(TRUE)
    \/ sweepChunk(TRUE)
    \/ bucketStats
    \/ publishAll({})
    \/ /\ pc \in {"sleep", "drain"}
       /\ \E req \in PublishNotifications :
             PUT_Objects(req.has_body, req.has_objids, req.objids)
    \/ /\ pc \in {"sleep", "drain"}
       /\ \E req \in PublishNotifications :
             DELETE_Objects(req.has_body, req.has_objids, req.objids)
    \/ wake
    \/ \E stat \in {r \in StatResults : r.ok}, k \in LastKeys :
          applyItem(stat, "full", k, "full")
    \/ drainDone
    \/ \E objs_updated \in UpdatedSets : publish(Dom, {}, objs_updated)
    \/ /\ pc \in {"sleep", "drain"}
       /\ GET_AsyncInfo

SpecPublish == Init /\ [][NextPublish]_vars

\* the steps of the task bucketCheck: asyncio resumes the task whenever the
\* call it awaits has returned
bucketCheck ==
    \/ bucketCheckReady
    \/ listKeys(ListedAtStart)
    \/ \E linked \in SomeLinkSets : markObj(linked)
    \/ sweepObjsStart
    \/ \E dn_ok \in BOOLEAN : sweepDataset(dn_ok)
    \/ \E dn_ok \in BOOLEAN : sweepChunk(dn_ok)
    \/ \E dn_ok \in BOOLEAN : sweepOther(dn_ok)
    \/ bucketStats
    \/ publishAll({})
    \/ wake
    \/ \E stat \in StatResults, json \in JsonResults, k \in LastKeys :
          applyItem(stat, json, k, json)
    \/ drainDone

\* The node of Spec with its loop scheduled fairly: bucketCheck takes a step
\* whenever it can.
SpecLive == Spec /\ WF_vars(bucketCheck)

\* another call of sweepObjs(app) once a pass is over (bucketCheck makes one
\* call, in the initial cycle)
sweepObjsAgain ==
    /\ pc = "stats"
    /\ sw = NoSweep
    /\ Len(dn_log) < MaxRequests
    /\ Has(bucket_stats, "deleted_count")
    /\ bucket_stats["deleted_count"] < MaxRequests
    /\ pc' = "sweep"
    /\ UNCHANGED <<node_state, heap, s3keys, domains, roots, groups, datasets,
                   datatypes, chunks, bytes_in_bucket, bucket_stats,
                   pending_queue, deleted_objids, domains_updated, sw, now,
                   anonymous_ttl, manifests, enqueued, applied, dn_log, http,
                   last, readied, published, mismatched>>

\* The initial cycle up to the stats refresh, with further passes of
\* sweepObjs after the first.
NextResweep ==
    \/ healthCheck(ClusterReady, Matching)
    \/ bucketCheckReady
    \/ listKeys(ListedAtStart)
    \/ \E linked \in LinkSets : markObj(linked)
    \/ sweepObjsStart
    \/ \E dn_ok \in BOOLEAN : sweepDataset(dn_ok)
    \/ \E dn_ok \in BOOLEAN : sweepChunk(dn_ok)
    \/ \E dn_ok \in BOOLEAN : sweepOther(dn_ok)
    \/ sweepObjsAgain

SpecResweep == Init /\ [][NextResweep]_vars

\* the objects notified of while the drain is followed: a dataset of the
\* bucket and a new group
DrainedIds == {D1, G2}

DrainNotifications ==
    {Request(TRUE, TRUE, <<id>>) : id \in DrainedIds}

\* The node with every object of the bucket linked and the JSON of an object
\* fetched in full: the initial cycle sweeps nothing, then come the
\* notifications and the ticks.
NextDrain ==
    \/ healthCheck(ClusterReady, Matching)
    \/ bucketCheckReady
    \/ listKeys(ListedAtStart)
    \/ markObj(Linkable)
    \/ sweepObjsStart
    \/ bucketStats
    \/ publishAll({})
    \/ /\ pc \in {"sleep", "drain"}
       /\ \E req \in DrainNotifications :
             PUT_Objects(req.has_body, req.has_objids, req.objids)
    \/ /\ pc \in {"sleep", "drain"}
       /\ \E req \in DrainNotifications :
             DELETE_Objects(req.has_body, req.has_objids, req.objids)
    \/ wake
    \/ \E stat \in StatResults, k \in LastKeys :
          applyItem(stat, "full", k, "full")
    \/ drainDone

\* its loop scheduled fairly
SpecDrain == Init /\ [][NextDrain]_vars /\ WF_vars(bucketCheck)

\* ------------------------------------------------------------- properties

\* the Size of a record, 0 for a record that has none (a placeholder)
SizeOf(d) == IF Has(d, "Size") THEN d.Size ELSE 0

RECURSIVE SumSizes(_)
SumSizes(keys) ==
    IF keys = {} THEN 0
    ELSE LET key == CHOOSE x \in keys : TRUE
         IN  SizeOf(heap[s3keys[key]]) + SumSizes(keys \ {key})

\* the drain loop has emptied the queue and the tick is over, or the initial
\* cycle is past its sweep
Settled == pc \in {"stats", "publish", "sleep"} /\ pending_queue = <<>>

Deleted(objid) == \E i \in 1..Len(dn_log) : dn_log[i].objid = objid /\ dn_log[i].ok

\* C1: in every state the node reaches, so after every drain of the queue
\* and after every sweepObj call, bytes_in_bucket is the sum of Size over the
\* records of s3keys, a record without Size (a lazily created placeholder)
\* counting for nothing.
BytesAreSumOfSizes == bytes_in_bucket = SumSizes(DOMAIN s3keys)

\* a sweep has deleted an object, a PUT has created a group and the
\* placeholder of its root, a DELETE of the group was applied, the queue is
\* drained
BytesWitness ==
    /\ Settled
    /\ pc = "sleep"
    /\ \E objid \in Linkable : Deleted(objid)
    /\ applied = <<Item(G2, "PUT"), Item(G2, "DELETE")>>
    /\ last = [op |-> "objDelete", objid |-> G2, outcome |-> "ok"]
    /\ getS3Key(R2) \in DOMAIN s3keys
    /\ ~Has(heap[s3keys[getS3Key(R2)]], "Size")
    /\ bytes_in_bucket > 0

KindIndexes == {"groups", "datasets", "datatypes", "chunks"}

\* C2: after every objUpdate, objDelete and sweepObj that returned (none
\* raised), every id of a kind index has its key in s3keys, and s3keys holds
\* there the very record (the same address) that the kind index holds.
IndexedAreKeyed ==
    last.outcome # "raise" =>
        \A collection \in KindIndexes :
            \A objid \in DOMAIN Graph[collection] :
                /\ getS3Key(objid) \in DOMAIN s3keys
                /\ s3keys[getS3Key(objid)] = Graph[collection][objid]

\* a sweepObj has deleted an object, an objUpdate has indexed a new group
\* and a new chunk
IndexedWitness ==
    /\ \E objid \in Linkable : Deleted(objid)
    /\ last.op = "objUpdate"
    /\ last.outcome = "ok"
    /\ G2 \in DOMAIN groups
    /\ Len(applied) = 2

\* the records of the datasets: those of the datasets index and those of the
\* datasets collection of a root
DatasetRecords ==
    {datasets[d] : d \in DOMAIN datasets}
        \cup UNION {{heap[roots[r]].datasets[d] :
                        d \in DOMAIN heap[roots[r]].datasets} :
                    r \in {x \in DOMAIN roots :
                              Has(heap[roots[x]], "datasets")}}

\* the record at the address a is the record of the dataset d
IsDataset(a, d) ==
    \/ d \in DOMAIN datasets /\ datasets[d] = a
    \/ \E r \in DOMAIN roots :
          /\ Has(heap[roots[r]], "datasets")
          /\ d \in DOMAIN heap[roots[r]].datasets
          /\ heap[roots[r]].datasets[d] = a

\* the dataset records whose chunks map holds the record of the chunk c
Holders(c) ==
    {a \in DatasetRecords :
        /\ Has(heap[a], "chunks")
        /\ c \in DOMAIN heap[a].chunks
        /\ heap[a].chunks[c] = chunks[c]}

\* C3: once the sweep pass is over and the queue is drained, every chunk of
\* the chunks index is in the chunks map of exactly one dataset record, the
\* record of its parent dataset getDatasetId(chunk).
ChunksHaveOneDataset ==
    Settled =>
        \A c \in DOMAIN chunks :
            /\ Cardinality(Holders(c)) = 1
            /\ \A a \in Holders(c) : IsDataset(a, getDatasetId(c))

\* C4: the items the drain has applied, followed by those still in
\* pending_queue, are the items the handlers appended, in the order of
\* their arrival: the drain applies in arrival order, also the items appended
\* while it is under way, and a PUT and a DELETE of one object keep their
\* order.
AppliedInArrivalOrder == enqueued = applied \o pending_queue

\* a DELETE of the group arrived while the drain was under way with the PUT
\* of the group in the queue; both are applied
ArrivalOrderWitness ==
    /\ applied = <<Item(G2, "PUT"), Item(G2, "DELETE")>>
    /\ http.method = "DELETE"
    /\ http.status = 200
    /\ http.pc = "drain"
    /\ http.before = <<Item(G2, "PUT")>>

\* an id that is neither a domain, nor a UUID, nor a chunk id
BadId(id) == ~isValidDomain(id) /\ ~isValidUuid(id) /\ ~isValidChunkId(id)

\* the body of the request is missing, or lacks objids, or has a bad id
BadRequest(req) ==
    \/ ~req.has_body
    \/ ~req.has_objids
    \/ \E i \in 1..Len(req.objids) : BadId(req.objids[i])

\* C5: the last PUT /objects or DELETE /objects request, when its body is
\* missing, lacks objids or has an id that is no domain, UUID or chunk id,
\* was answered 400 and left pending_queue as it was.
BadRequestRejected ==
    http.method # "none" /\ BadRequest(http) =>
        http.status = 400 /\ http.after = http.before

\* a batch of a valid group id followed by an invalid id is rejected while
\* the queue holds an item
RejectedWitness ==
    /\ http.method = "PUT"
    /\ http.objids = <<G2, Bad>>
    /\ http.status = 400
    /\ http.before # <<>>
    /\ pending_queue = http.before

NonDomain(id) == ~isValidDomain(id)

\* one item per id of the batch that is no domain id, in batch order
ExpectedItems(objids, action) ==
    [i \in 1..Len(SelectSeq(objids, NonDomain)) |->
        [objid |-> SelectSeq(objids, NonDomain)[i], action |-> action]]

ListedObjects == OfKind("g") \cup OfKind("d") \cup OfKind("t") \cup OfKind("c")

Keyed(objid) == getS3Key(objid) \in DOMAIN s3keys

Indexed(objid) ==
    objid \in (DOMAIN groups) \cup (DOMAIN datasets) \cup (DOMAIN datatypes)
                 \cup (DOMAIN chunks)

\* the age of the record of a key of s3keys
Age(objid) == now - heap[s3keys[getS3Key(objid)]].LastModified

\* C7: a step in which a sweepObj call without force issues a DN delete
\* for an object, or in which an object leaves s3keys or its kind index, is
\* a step on an object of age now - LastModified >= anonymous_ttl: no object
\* younger than anonymous_ttl is deleted, dataset, datatype, group or chunk.
YoungObjectsKept ==
    [][/\ dn_log' # dn_log =>
             \/ dn_log'[Len(dn_log')].force
             \/ Age(dn_log'[Len(dn_log')].objid) >= anonymous_ttl
       /\ \A objid \in ListedObjects :
             /\ Keyed(objid)
             /\ \/ ~Keyed(objid)'
                \/ Indexed(objid) /\ ~Indexed(objid)'
             => Age(objid) >= anonymous_ttl]_vars

\* with a positive anonymous_ttl, the old dataset was deleted and its young
\* chunk was skipped and stays
YoungKeptWitness ==
    /\ anonymous_ttl = MaxTime
    /\ Deleted(D1)
    /\ last = [op |-> "sweepObj", objid |-> Chunk(1, 1), outcome |-> "skipped"]
    /\ Keyed(Chunk(1, 1))
    /\ Indexed(Chunk(1, 1))
    /\ Age(Chunk(1, 1)) < anonymous_ttl

\* C8: a step in which the DN delete request of sweepObj fails makes
\* sweepObj return failure and leaves s3keys, the kind indexes,
\* bytes_in_bucket and the record of the object as they were.
FailedDeleteKeepsGraph ==
    [][dn_log' # dn_log /\ ~dn_log'[Len(dn_log')].ok =>
          /\ last'.outcome = "failed"
          /\ last'.objid = dn_log'[Len(dn_log')].objid
          /\ UNCHANGED <<s3keys, groups, datasets, datatypes, chunks,
                         bytes_in_bucket>>
          /\ heap'[s3keys[getS3Key(last'.objid)]]
                = heap[s3keys[getS3Key(last'.objid)]]]_vars

\* the DN delete of the unused dataset has failed: the dataset is in the
\* datasets index and in s3keys, and the bytes are those of the listing
FailedDeleteWitness ==
    /\ last = [op |-> "sweepObj", objid |-> D1, outcome |-> "failed"]
    /\ dn_log # <<>>
    /\ ~dn_log[Len(dn_log)].ok
    /\ D1 \in DOMAIN datasets
    /\ Keyed(D1)
    /\ datasets[D1] = s3keys[getS3Key(D1)]
    /\ bytes_in_bucket = SumSizes({getS3Key(id) : id \in Range(ListOrder)})

\* the number of DN delete requests for an object
DnCount(objid) ==
    Cardinality({i \in 1..Len(dn_log) : dn_log[i].objid = objid})

AllDeletesOk == \A i \in 1..Len(dn_log) : dn_log[i].ok

\* the dataset loop of sweepObjs (with its chunk loops) is over
DatasetsSwept ==
    \/ pc = "stats"
    \/ pc = "sweep" /\ sw.phase \in {"datatypes", "groups"}

ChunksOfDataset(d) == {c \in OfKind("c") : getDatasetId(c) = d}

\* C9: with anonymous_ttl = 0 and every DN delete succeeding, once the
\* dataset loop of a sweepObjs pass is over no dataset with used = False is
\* left in the datasets index; a removed dataset and each of its chunks have
\* left the datasets index, the chunks index, s3keys and the chunks map of
\* the dataset's record, and exactly one DN delete was issued for each of
\* them and none for an object that stays.
UnusedDatasetSwept ==
    anonymous_ttl = 0 /\ AllDeletesOk /\ DatasetsSwept =>
        /\ \A d \in DOMAIN datasets : heap[datasets[d]].used
        /\ \A d \in OfKind("d") \ DOMAIN datasets :
              /\ ~Keyed(d)
              /\ DnCount(d) = 1
              /\ \A c \in ChunksOfDataset(d) :
                    /\ c \notin DOMAIN chunks
                    /\ ~Keyed(c)
                    /\ DnCount(c) = 1
        /\ sw.dset # 0 => DOMAIN heap[sw.dset].chunks = {}
        /\ \A objid \in ListedObjects : Keyed(objid) => DnCount(objid) = 0

\* the pass has removed the unused dataset and its chunks with one DN
\* delete each, and goes on with the datatypes or the groups
UnusedDatasetWitness ==
    /\ anonymous_ttl = 0
    /\ AllDeletesOk
    /\ pc = "sweep"
    /\ sw.phase \in {"datatypes", "groups"}
    /\ sw.dset # 0
    /\ D1 \notin DOMAIN datasets
    /\ Len(dn_log) = 1 + NumChunks

\* C10: every DN delete issued for a chunk comes after a DN delete of its
\* parent dataset that succeeded and that found the dataset with used =
\* False; and a dataset of the listing that has left the datasets index or
\* s3keys has had a successful DN delete.
ChunksAfterDataset ==
    /\ \A i \in 1..Len(dn_log) :
          isValidChunkId(dn_log[i].objid) =>
              \E j \in 1..(i - 1) :
                  /\ dn_log[j].objid = getDatasetId(dn_log[i].objid)
                  /\ dn_log[j].ok
                  /\ ~dn_log[j].used
    /\ Listed =>
          \A d \in OfKind("d") :
              d \notin DOMAIN datasets \/ ~Keyed(d) => Deleted(d)

\* a DN delete was issued for a chunk after that of its dataset, which has
\* left the graph
ChunksAfterWitness ==
    /\ Len(dn_log) >= 2
    /\ dn_log[1].objid = D1
    /\ isValidChunkId(dn_log[2].objid)
    /\ D1 \notin DOMAIN datasets
    /\ ~Keyed(D1)

\* the last DN delete request for an object failed
FailedLast(objid) ==
    \E i \in 1..Len(dn_log) :
        /\ dn_log[i].objid = objid
        /\ ~dn_log[i].ok
        /\ \A j \in (i + 1)..Len(dn_log) : dn_log[j].objid # objid

\* C11: an object whose DN delete failed stays recorded in the graph (in
\* s3keys and its kind index) and a later sweepObjs pass issues a DN delete
\* for it again; this holds for a chunk whose dataset was already deleted.
FailedDeleteRetried ==
    /\ [](\A objid \in ListedObjects :
             FailedLast(objid) => Keyed(objid) /\ Indexed(objid))
    /\ \A objid \in ListedObjects :
           (FailedLast(objid) /\ DnCount(objid) = 1) ~> (DnCount(objid) > 1)

\* the item the drain loop applies in this step
Popped == Head(pending_queue)

\* the drain loop applies an item in this step, by the operation op
Applies(op) ==
    /\ pc = "drain"
    /\ pending_queue # <<>>
    /\ applied' = Append(applied, Popped)
    /\ OpOf(Popped) = op

\* the record of a key of s3keys before and after the step
OldRecord(objid) == heap[s3keys[getS3Key(objid)]]

NewRecord(objid) == heap'[s3keys'[getS3Key(objid)]]

\* the stats getS3ObjStats answers when the object is there
FreshStats(d) ==
    /\ StatKeys \subseteq DOMAIN d
    /\ d.ETag = "e1"
    /\ d.Size = 5
    /\ d.LastModified = now

\* C12: objUpdate applied to an objid whose key is in s3keys (the stat
\* succeeding) installs a record with the fresh ETag, Size and LastModified
\* and every other key of the old record unchanged, and bytes_in_bucket
\* changes by new_size - old_size.
ReplaceKeepsExtras ==
    [][Applies("objUpdate") /\ Keyed(Popped.objid)
          /\ last'.outcome # "stat_failed" =>
          /\ getS3Key(Popped.objid) \in DOMAIN s3keys'
          /\ FreshStats(NewRecord(Popped.objid))
          /\ \A key \in Extras(OldRecord(Popped.objid)) :
                /\ Has(NewRecord(Popped.objid), key)
                /\ NewRecord(Popped.objid)[key] = OldRecord(Popped.objid)[key]
          /\ bytes_in_bucket' =
                (bytes_in_bucket - SizeOf(OldRecord(Popped.objid))) + 5]_vars

\* C13: when the stat of the object fails in objUpdate the event is dropped:
\* s3keys, the kind indexes, the records with their per-root collections and
\* bytes_in_bucket are unchanged, and the drain loop stands at the next item
\* of the queue.
FailedStatDropsEvent ==
    [][Applies("objUpdate") /\ last'.outcome = "stat_failed" =>
          /\ UNCHANGED <<heap, s3keys, domains, roots, groups, datasets,
                         datatypes, chunks, bytes_in_bucket, deleted_objids>>
          /\ pc' = "drain"
          /\ pending_queue' = Tail(pending_queue)]_vars

\* the stat of a PUT failed, and the drain loop went on to apply the next
\* item of the queue
FailedStatWitness ==
    /\ Len(applied) = 2
    /\ applied[1].action = "PUT"
    /\ Keyed(G1)
    /\ ~Keyed(G2)
    /\ G2 \notin DOMAIN groups
    /\ applied[1].objid = G2
    /\ applied[2].objid = G2
    /\ last = [op |-> "objDelete", objid |-> G2, outcome |-> "not_indexed"]
    /\ deleted_objids = {G2}
    /\ pc = "drain"

\* C14: when an object-store call made while applying a queue item fails (the
\* stat, or the JSON fetch that resolves the owning root), the operation
\* leaves the graph as it was before the item was applied.
StoreFailureKeepsGraph ==
    [][(Applies("objUpdate") \/ Applies("objDelete"))
          /\ last'.outcome \in {"stat_failed", "fetch_failed"} =>
          UNCHANGED <<heap, s3keys, domains, roots, groups, datasets,
                      datatypes, chunks, bytes_in_bucket,
                      deleted_objids>>]_vars

\* the records of the heap h whose groups, datasets, datatypes or chunks map
\* holds the objid: the per-root collections, the chunks maps of the datasets
InCollections(h, objid) ==
    {a \in DOMAIN h :
        \E key \in (DOMAIN h[a]) \cap MapKeys : objid \in DOMAIN h[a][key]}

\* the kind index of the objid
KindIndex(objid) == Graph[CollectionOf(objid)]

\* C15: after objDelete is applied to an objid that is indexed (in s3keys, in
\* its kind index and in its per-root collection), the objid is absent from
\* s3keys, from its kind index and from the per-root collection (a chunk:
\* from the chunks map of its dataset), bytes_in_bucket has decreased by the
\* Size of the record, and the objid is in deleted_objids.
DeleteRemovesObject ==
    [][Applies("objDelete") /\ Keyed(Popped.objid)
          /\ Popped.objid \in DOMAIN KindIndex(Popped.objid)
          /\ InCollections(heap, Popped.objid) # {} =>
          /\ getS3Key(Popped.objid) \notin DOMAIN s3keys'
          /\ Popped.objid \notin (DOMAIN groups') \cup (DOMAIN datasets')
                \cup (DOMAIN datatypes') \cup (DOMAIN chunks')
          /\ InCollections(heap', Popped.objid) = {}
          /\ bytes_in_bucket' =
                bytes_in_bucket - SizeOf(OldRecord(Popped.objid))
          /\ Popped.objid \in deleted_objids']_vars

\* C16: no failure while applying a queue item ends the reconciliation loop:
\* bucketCheck is never left by an exception, it stands at the next item or
\* the next tick.
LoopSurvives == pc # "crashed"

\* C17: in a steady-cycle tick the drain loop is left for the pass over the
\* dirty domains only with pending_queue empty, also when a handler appended
\* items while the drain was suspended in an item.
DrainedBeforePublish ==
    [][pc = "drain" /\ pc' \notin {"drain", "crashed"} =>
          pending_queue = <<>> /\ pending_queue' = <<>>]_vars

\* a handler appended an item while the drain loop was suspended, and the
\* tick ended with the whole queue applied
DrainedWitness ==
    /\ http.pc = "drain"
    /\ http.status = 200
    /\ http.before # <<>>
    /\ Len(http.after) = Len(http.before) + 1
    /\ pc = "sleep"
    /\ pending_queue = <<>>
    /\ applied = enqueued
    /\ Len(applied) = 2
    /\ DOMAIN domains_updated # {}

\* C18: while bucketCheck waits nothing was listed, swept, published or
\* drained; it leaves its wait only with node_state READY; and node_state
\* becomes READY only in a health check that saw cluster_state READY while
\* the node was WAITING.
LoopStartsWhenReady ==
    /\ [](pc = "wait" =>
             /\ heap = EmptyMap /\ s3keys = EmptyMap
             /\ sw = NoSweep /\ dn_log = <<>>
             /\ manifests = EmptyMap /\ bucket_stats = EmptyMap
             /\ applied = <<>>)
    /\ [](pc # "wait" => readied # NotReadied)
    /\ [][/\ pc = "wait" /\ pc' # "wait" => node_state = "READY"
          /\ node_state # "READY" /\ node_state' = "READY" =>
                /\ node_state = "WAITING"
                /\ readied' = [node_state |-> "WAITING",
                               cluster_state |-> "READY"]]_vars

\* the sweep runs after the node became READY on a ready cluster, the node
\* waiting again since
LoopStartedWitness ==
    /\ pc = "sweep"
    /\ dn_log # <<>>
    /\ readied = [node_state |-> "WAITING", cluster_state |-> "READY"]
    /\ node_state = "WAITING"

\* the stages of the initial cycle that are over
ListerDone == pc \notin {"wait", "list"}

MarkerDone == pc \notin {"wait", "list", "mark"}

SweeperDone == pc \notin {"wait", "list", "mark", "sweep"}

PublisherDone == pc \notin {"wait", "list", "mark", "sweep", "stats", "publish"}

\* updateBucketStats has run
StatsRefreshed == Has(bucket_stats, "pending_count")

\* C19: the initial cycle runs Lister, Marker, Sweeper, Publisher, stats
\* refresh in this order: the graph is marked only once it is listed, the
\* sweep has started only once the Marker is over, a manifest is written only
\* once the Sweeper is over, and the stats are refreshed only once the
\* Publisher pass is over.
InitialCycleInOrder ==
    /\ (\E a \in DOMAIN heap : Has(heap[a], "used") /\ heap[a].used)
           => ListerDone
    /\ (sw # NoSweep \/ dn_log # <<>>) => MarkerDone
    /\ manifests # EmptyMap => SweeperDone
    /\ StatsRefreshed => PublisherDone

\* the PUT of a group was drained in the tick that is over, the group now in
\* s3keys, in the groups index and in the groups of its root
GroupPutDrained(g) ==
    /\ pc = "sleep"
    /\ HomeDomain(g) \in DOMAIN domains_updated
    /\ g \in domains_updated[HomeDomain(g)]
    /\ Item(g, "PUT") \in Range(applied)
    /\ Keyed(g)
    /\ g \in DOMAIN groups
    /\ InCollections(heap, g) # {}

\* C20: once a tick that drained the PUT of a group g of the domain d is
\* over, the manifest <d>/.groups.txt is written and has the line of g.
DirtyDomainsPublished ==
    \A g \in OfKind("g") \cup {G2} :
        GroupPutDrained(g) =>
            /\ CollectionKey(HomeDomain(g), "groups") \in DOMAIN manifests
            /\ Line(g, heap[groups[g]])
                  \in Range(manifests[CollectionKey(HomeDomain(g), "groups")])

\* the names of the lines of a manifest, none when it was never written
Names(key) ==
    IF key \in DOMAIN manifests
    THEN {manifests[key][i][1] : i \in 1..Len(manifests[key])}
    ELSE {}

\* the last item applied is the DELETE of the object, applied without
\* failure, and updateDomainContent has since run for its domain, the kind
\* of the object among those it was to write
PublishedAfterDelete(objid) ==
    /\ applied # <<>>
    /\ applied[Len(applied)] = Item(objid, "DELETE")
    /\ last.outcome = "ok"
    /\ published.domain = HomeDomain(objid)
    /\ published.at = Len(applied)
    /\ ~published.raised
    /\ Included(published.objs_updated, CollectionOf(objid)) = "yes"

\* C21: once the DELETE of a group g is drained and the Publisher has run for
\* its domain, g is in no groups index and <domain>/.groups.txt has no line
\* for g, also when g was the last group of the domain.
DeletedGroupUnpublished ==
    \A g \in OfKind("g") :
        PublishedAfterDelete(g) =>
            /\ g \notin DOMAIN groups
            /\ InCollections(heap, g) = {}
            /\ g \notin Names(CollectionKey(HomeDomain(g), "groups"))

\* the root record of a domain that has one in roots
RootOf(domain) == heap[roots[heap[domains[domain]].root]]

HasRoot(domain) ==
    /\ domain \in DOMAIN domains
    /\ Has(heap[domains[domain]], "root")
    /\ heap[domains[domain]].root \in DOMAIN roots

\* a full pass of updateDomainContent was the last thing to happen to the
\* domain: no item was applied since
FullPass(domain) ==
    /\ published.domain = domain
    /\ ~published.objs_updated.given
    /\ published.at = Len(applied)
    /\ HasRoot(domain)

\* every record of the collection has its ETag, LastModified and Size
AllFull(domain_col) ==
    \A objid \in DOMAIN domain_col : FullRecord(heap[domain_col[objid]])

\* the members of the collection sorted by id, a line for each
Formatted(domain_col) ==
    [i \in 1..Cardinality(DOMAIN domain_col) |->
        Line(Sorted(DOMAIN domain_col)[i],
             heap[domain_col[Sorted(DOMAIN domain_col)[i]]])]

\* C22: after a full pass of updateDomainContent over a non-folder domain,
\* the manifest of each kind with members has exactly one line per member of
\* the per-root collection, in ascending order of the ids, with the ETag,
\* LastModified and Size of the record; and a record without these fields
\* does not abort the pass.
ManifestsMatchGraph ==
    \A domain \in DOMAIN domains :
        FullPass(domain) =>
            /\ ~published.raised
            /\ \A collection \in {"groups", "datatypes", "datasets"} :
                  /\ DOMAIN RootOf(domain)[collection] # {}
                  /\ AllFull(RootOf(domain)[collection])
                  => /\ CollectionKey(domain, collection) \in DOMAIN manifests
                     /\ manifests[CollectionKey(domain, collection)] =
                           Formatted(RootOf(domain)[collection])

\* the kinds the ids make dirty: the kind of each group, datatype and dataset
\* id, the datasets for a chunk id
DirtyKinds(ids) ==
    {"groups" : objid \in {x \in ids : x[1] = "g"}}
        \cup {"datatypes" : objid \in {x \in ids : x[1] = "t"}}
        \cup {"datasets" : objid \in {x \in ids : x[1] \in {"d", "c"}}}

\* the datasets that have a chunk among the ids
DirtyDatasets(ids) == {<<"d", x[2], 0>> : x \in {y \in ids : y[1] = "c"}}

\* C23: a call of updateDomainContent with objs_updated given writes the
\* manifest of a kind only if objs_updated holds an id of that kind (a chunk
\* id counting for the datasets), and the chunk manifest of a dataset only if
\* objs_updated holds a chunk of that dataset.
IncrementalWritesDirtyOnly ==
    published.objs_updated.given =>
        \A key \in published.written :
            /\ key[1] = published.domain
            /\ \/ /\ key[2][1] \in DirtyKinds(Range(published.objs_updated.ids))
                  /\ key = CollectionKey(published.domain, key[2][1])
               \/ /\ key[2] \in DirtyDatasets(Range(published.objs_updated.ids))
                  /\ key = ChunksKey(published.domain, key[2])

\* an incremental call with a group, a datatype and a chunk wrote the three
\* manifests of the kinds and the chunk manifest of the dataset
IncrementalWitness ==
    /\ published.objs_updated = Given(<<G1, T1, Chunk(1, 1)>>)
    /\ published.written =
          {CollectionKey(Dom, "groups"), CollectionKey(Dom, "datatypes"),
           CollectionKey(Dom, "datasets"), ChunksKey(Dom, D1)}

\* the root the JSON of the parent of the object names
ParentRoot(objid) == HomeRoot(DomainItemId(objid))

\* the parent of the object is not in the graph: its root is not in roots,
\* or (a chunk) its dataset is not in the datasets map of its root
Orphan(objid) ==
    \/ ParentRoot(objid) \notin DOMAIN roots
    \/ /\ isValidChunkId(objid)
       /\ getDatasetId(objid) \notin
             DOMAIN heap[roots[ParentRoot(objid)]].datasets

\* after the step the root is in roots and in s3keys, one record with the
\* three collections, holding nothing else when its key was not in s3keys
RootMaterialized(rootid) ==
    /\ rootid \in DOMAIN roots'
    /\ getS3Key(rootid) \in DOMAIN s3keys'
    /\ s3keys'[getS3Key(rootid)] = roots'[rootid]
    /\ RootCollections \subseteq DOMAIN heap'[roots'[rootid]]
    /\ getS3Key(rootid) \notin DOMAIN s3keys =>
          (DOMAIN heap'[roots'[rootid]]) \ RootCollections = {}

\* after the step the dataset is in the datasets map of the root and in
\* s3keys, one record, with a chunks map and, when its key was not in s3keys,
\* nothing else
DatasetMaterialized(rootid, dsetid) ==
    /\ dsetid \in DOMAIN heap'[roots'[rootid]].datasets
    /\ getS3Key(dsetid) \in DOMAIN s3keys'
    /\ s3keys'[getS3Key(dsetid)] = heap'[roots'[rootid]].datasets[dsetid]
    /\ Has(heap'[s3keys'[getS3Key(dsetid)]], "chunks")
    /\ getS3Key(dsetid) \notin DOMAIN s3keys =>
          DOMAIN heap'[s3keys'[getS3Key(dsetid)]] = {"chunks"}

\* after the step the record of the object (that of s3keys) is in the map
AttachedTo(domain_col, objid) ==
    /\ objid \in DOMAIN domain_col
    /\ domain_col[objid] = s3keys'[getS3Key(objid)]

AsyncInfoAnswered ==
    /\ http'.method = "GET"
    /\ UNCHANGED <<node_state, pc, heap, s3keys, domains, roots, groups,
                   datasets, datatypes, chunks, bytes_in_bucket,
                   pending_queue, deleted_objids, domains_updated, sw, now,
                   anonymous_ttl, manifests, enqueued, applied, dn_log, last,
                   readied, published, mismatched>>

\* the stat of the answer is there and has the value
Answered(key, value) ==
    /\ Has(bucket_stats', key)
    /\ bucket_stats'[key] = value

\* C25: the bucket_stats a GET /async_info returns has object_count,
\* domain_count, root_count, group_count, dataset_count, datatype_count and
\* chunk_count equal to the sizes of s3keys, domains, roots, groups, datasets,
\* datatypes and chunks, storage_size equal to bytes_in_bucket and
\* pending_count equal to the length of pending_queue.
StatsReflectGraph ==
    [][AsyncInfoAnswered =>
          /\ Answered("object_count", Cardinality(DOMAIN s3keys))
          /\ Answered("domain_count", Cardinality(DOMAIN domains))
          /\ Answered("root_count", Cardinality(DOMAIN roots))
          /\ Answered("group_count", Cardinality(DOMAIN groups))
          /\ Answered("dataset_count", Cardinality(DOMAIN datasets))
          /\ Answered("datatype_count", Cardinality(DOMAIN datatypes))
          /\ Answered("chunk_count", Cardinality(DOMAIN chunks))
          /\ Answered("storage_size", bytes_in_bucket)
          /\ Answered("pending_count", Len(pending_queue))]_vars

\* C26: when the health check finds, for the type and number of this node,
\* an id of the head node that is not the id of this node, node_state is set
\* back to INITIALIZING, so that the next iteration registers again.
MismatchReinitializes == mismatched => node_state = "INITIALIZING"

\* the items applied are the first items appended, in their order
AppliedOnce == applied = SubSeq(enqueued, 1, Len(applied))

\* C27: every item appended to pending_queue is in the end popped and
\* applied, exactly once, as long as the loop of bucketCheck is scheduled.
EveryItemApplied ==
    /\ []AppliedOnce
    /\ \A n \in 1..MaxEvents :
           (Len(enqueued) >= n) ~> (Len(applied) >= n)

\* the DN delete request the step issues
Issued == dn_log'[Len(dn_log')]

\* the DN delete of the object succeeded earlier in the pass
DeletedInPass(objid) ==
    \E i \in 1..Len(dn_log) : dn_log[i].objid = objid /\ dn_log[i].ok

\* the record of the object says it is linked
Used(objid) ==
    /\ Has(heap[s3keys[getS3Key(objid)]], "used")
    /\ heap[s3keys[getS3Key(objid)]].used

\* C28: a pass of sweepObjs issues no DN delete for, and takes off the graph
\* no, group, datatype or dataset whose record has used = True: it deletes
\* records with used = False, and chunks of a dataset it has deleted in the
\* same pass.
UsedObjectsKept ==
    [][/\ dn_log' # dn_log =>
             /\ Keyed(Issued.objid)
             /\ IF isValidChunkId(Issued.objid)
                THEN DeletedInPass(getDatasetId(Issued.objid))
                ELSE ~Used(Issued.objid)
       /\ \A objid \in ListedObjects :
             /\ pc = "sweep"
             /\ Keyed(objid)
             /\ ~Keyed(objid)' \/ (Indexed(objid) /\ ~Indexed(objid)')
             => IF isValidChunkId(objid)
                THEN DeletedInPass(getDatasetId(objid))
                ELSE ~Used(objid)]_vars

\* the pass is over: it has deleted the dataset, linked by nothing, and a
\* chunk of it, and the group and the datatype, which are linked, are there
UsedKeptWitness ==
    /\ SweeperDone
    /\ DeletedInPass(D1)
    /\ DeletedInPass(Chunk(1, 1))
    /\ Keyed(G1) /\ Used(G1)
    /\ Keyed(T1) /\ Used(T1)

\* the sweepObj calls that returned True so far
Successes == {i \in 1..Len(dn_log) : dn_log[i].ok}

\* no pass of sweepObjs is under way and one is over
PassOver == sw = NoSweep /\ Has(bucket_stats, "deleted_count") /\ MarkerDone

\* C29: each pass of sweepObjs adds to bucket_stats.deleted_count the number
\* of objects whose sweepObj returned True in the pass: after any number of
\* passes deleted_count is the number of objects swept with success.
DeletedCountIsTotal ==
    PassOver /\ pc # "sweep" =>
        bucket_stats["deleted_count"] = Cardinality(Successes)

\* C30: every key of domains_updated is the domain getDomainForObjid
\* resolved for an applied group, dataset, datatype or chunk, and the ids
\* under a key are applied objects of that domain; an item whose domain is
\* not resolved (getDomainForObjid returns None) adds no entry.
DirtyDomainsResolved ==
    /\ None \notin DOMAIN domains_updated
    /\ \A domain \in DOMAIN domains_updated :
          /\ isValidDomain(domain)
          /\ domains_updated[domain] # {}
          /\ \A objid \in domains_updated[domain] :
                /\ HomeDomain(DomainItemId(objid)) = domain
                /\ \E i \in 1..Len(applied) : applied[i].objid = objid

====
